---- MODULE Spec2Model ----
(***************************************************************************)
(* shell-mcp: the prompt-synchronized interactive subprocess drivers.      *)
(*                                                                         *)
(*   InteractiveShell         src/src/pexpect_shell.py  (pexpect, blocking) *)
(*   GenericInteractiveShell  src/src/shell.py          (asyncio, polling)  *)
(*                                                                         *)
(* A character of the child's output is a pair <<class, tag>>: its class is *)
(* what the prompt patterns and str.strip() can tell apart; its tag is 1    *)
(* when the child wrote it for the line it was sent last (or, before any    *)
(* line, for its start-up) and 0 when it wrote it for anything earlier. The *)
(* tag is a ghost: no definition that models code reads it.                 *)
(***************************************************************************)
EXTENDS Integers, Sequences, FiniteSets, TLC

VARIABLES
    impl,           \* which class the session object is: "pexpect" or "generic"
    child,          \* self.child / self.process and the process behind it
    todo,           \* what the child has still to write (its pending output)
    pipe,           \* written by the child, not yet read by the session
    buffer,         \* child.buffer (pexpect) / self._output_buffer (generic)
    reader,         \* generic: state of self._reader_task
    pc,             \* where the caller's current call is suspended
    cmd,            \* the command argument of the run_command in progress
    res,            \* the call in progress or, when pc = "idle", how the last one ended
    sent,           \* the last line the session wrote to a child's stdin
    calls,          \* number of calls made (bounded by MaxCalls)
    mBuf,           \* pattern selection alone: the buffer searched
    mSel,           \* pattern selection alone: what each class selected
    lCmd,           \* line writing alone: the command argument
    lSent,          \* line writing alone: what each class wrote for it
    objs,           \* tool layer: the shell object made for each session id
    reg,            \* tool layer: the ids registered in _active_sessions
    tool,           \* tool layer: the last tool call and what it returned
    tcalls,         \* tool layer: number of tool calls made
    aObjs,          \* overlapping tool calls: the shell object of each session id
    aReg,           \* overlapping tool calls: the ids in _active_sessions
    aTask,          \* overlapping tool calls: the tool call each task is in
    aCalls,         \* overlapping tool calls: number of tool calls made
    tProc,          \* tcl.py: _tcl_process and the tclsh behind it
    tTodo,          \* tcl.py: lines tclsh has still to write
    tPipe,          \* tcl.py: lines tclsh has written that nothing has read
    tReaders,       \* tcl.py: readline calls left blocked in the pool
    tTask,          \* tcl.py: the run_tcl call each task is in
    tCalls,         \* tcl.py: number of run_tcl calls made
    wChild,         \* writes to the child: the child process
    wStdin,         \* writes to the child: lines in its stdin it has not read
    wLeft,          \* writes to the child: what is left to write of the line
    wFound,         \* writes to the child: the buffer holds a prompt
    wPc,            \* writes to the child: where the call in progress is
    wRes,           \* writes to the child: how the last call ended
    wCalls,         \* writes to the child: number of calls made
    rChild,         \* start() again: the child the session refers to
    rOrphans,       \* start() again: live children it spawned and dropped
    rReader,        \* start() again: state of self._reader_task
    rOld,           \* start() again: earlier reader tasks still running
    rUnread,        \* start() again: output of the child that nothing has read
    rBuf,           \* start() again: characters appended since the last call ended
    rRes,           \* start() again: the last call and how it ended
    rCalls          \* start() again: number of calls made

sessVars == <<impl, child, todo, pipe, buffer, reader, pc, cmd, res, sent, calls>>
matchVars == <<mBuf, mSel>>
lineVars == <<lCmd, lSent>>
toolVars == <<objs, reg, tool, tcalls>>
asyncVars == <<aObjs, aReg, aTask, aCalls>>
tclVars == <<tProc, tTodo, tPipe, tReaders, tTask, tCalls>>
liveVars == <<wChild, wStdin, wLeft, wFound, wPc, wRes, wCalls>>
againVars == <<rChild, rOrphans, rReader, rOld, rUnread, rBuf, rRes, rCalls>>
sideVars == <<asyncVars, tclVars, liveVars, againVars>>
auxVars == <<matchVars, lineVars, toolVars, sideVars>>
vars == <<sessVars, auxVars>>

----------------------------------------------------------------------------
(* Bounds *)

\* calls (start, run_command, close) made on one session object
MaxCalls == 3
\* length of the buffers the pattern selection is checked on
MaxBufLen == 5
\* length of the command strings the line writing is checked on
MaxCmdLen == 4
\* tool calls made on the registry
MaxToolCalls == 4
\* session ids handed out
MaxSessions == 2
\* characters a child has written that no run_command has collected yet
MaxPending == 1
\* calls made on the session whose writes are followed
MaxLiveCalls == 3
\* units of a line written to the child
MaxLine == 2
\* units the stdin of the child holds unread
PipeCapacity == 2
\* run_tcl calls made
MaxTclCalls == 2
\* lines tclsh writes for one command
MaxLines == 1
\* threads of the pool that a blocked readline can hold
MaxReaders == 1
\* tool calls that can be in flight at once
MaxTasks == 2
\* overlapping tool calls made
MaxAsyncCalls == 4
\* start() and close() calls made on the one object
MaxAgainCalls == 4
\* characters of output that wait unread, and that are appended between calls
MaxUnread == 2

----------------------------------------------------------------------------
(* Characters, as the patterns and str.strip() see them:                   *)
(*   "r" carriage return, "n" newline, "s" space, "p" one of $ % # >,      *)
(*   "a" any other printing character.                                     *)

Classes == {"r", "n", "s", "p", "a"}

Cls(x) == x[1]
Tag(x) == x[2]
Mk(c, g) == <<c, g>>

\* a string of classes, all with tag g
Str(cs, g) == [i \in 1..Len(cs) |-> Mk(cs[i], g)]

\* str.strip(): whitespace is removed from both ends
IsSpace(x) == Cls(x) \in {"r", "n", "s"}

RECURSIVE LStrip(_)
LStrip(s) == IF s # <<>> /\ IsSpace(Head(s)) THEN LStrip(Tail(s)) ELSE s

RECURSIVE RStrip(_)
RStrip(s) ==
    IF s # <<>> /\ IsSpace(s[Len(s)]) THEN RStrip(SubSeq(s, 1, Len(s) - 1)) ELSE s

strip(s) == RStrip(LStrip(s))

\* ghost: the same text, now written for an earlier line
Age(s) == [i \in 1..Len(s) |-> Mk(Cls(s[i]), 0)]

----------------------------------------------------------------------------
(* The prompt patterns (COMMON_PROMPT_PATTERNS, the same list in both       *)
(* classes) and Python's re.search on them. Positions are 1-based here:     *)
(* position i is Python's offset i - 1.                                     *)

\* len(COMMON_PROMPT_PATTERNS); pattern k here is Python's index k - 1
NumPatterns == 3

NoMatch == [index |-> 0, start |-> 0, end |-> 0]

\* the class at position i, "eos" outside the string
At(buf, i) == IF i \in 1..Len(buf) THEN Cls(buf[i]) ELSE "eos"

\* [^\S\r\n]* : the first position from j on that holds no space or tab
RECURSIVE SkipBlank(_, _)
SkipBlank(buf, j) == IF At(buf, j) = "s" THEN SkipBlank(buf, j + 1) ELSE j

\* the regex "$" at position i: the end of the string or just before the
\* newline that ends it; with re.MULTILINE, before any newline
AtDollar(buf, i, multiline) ==
    \/ i = Len(buf) + 1
    \/ At(buf, i) = "n" /\ (multiline \/ i = Len(buf))

\* the last position of the match of pattern k that starts at position i,
\* or 0 when pattern k does not match there
MatchEnd(k, buf, i, multiline) ==
    LET j == IF At(buf, i) = "r" THEN i + 1 ELSE i      \* \r?
        q == SkipBlank(buf, j + 1)                     \* \n[^\S\r\n]*
    IN  CASE k = 1 ->                                  \* \r?\n[^\S\r\n]*[\$%#>]<space>
                 IF At(buf, j) = "n" /\ At(buf, q) = "p" /\ At(buf, q + 1) = "s"
                 THEN q + 1 ELSE 0
          [] k = 2 ->                                  \* \r?\n[^\S\r\n]*[\$%#>]
                 IF At(buf, j) = "n" /\ At(buf, q) = "p" THEN q ELSE 0
          [] OTHER ->                                  \* [\$%#>]<space>$
                 IF At(buf, i) = "p" /\ At(buf, i + 1) = "s"
                    /\ AtDollar(buf, i + 2, multiline)
                 THEN i + 1 ELSE 0

\* regex.search(buf): the leftmost match of pattern k
re_search(k, buf, multiline) ==
    LET S == {i \in 1..Len(buf) : MatchEnd(k, buf, i, multiline) > 0}
    IN  IF S = {} THEN NoMatch
        ELSE LET i == CHOOSE x \in S : \A y \in S : x <= y
             IN  [index |-> k, start |-> i, end |-> MatchEnd(k, buf, i, multiline)]

\* a faulty variant of IsBetter: a later pattern replaces an earlier one that
\* starts at the same position
IsBetter_or_equal(n, first_match) == first_match = NoMatch \/ n <= first_match.start

\* pexpect's searcher_re.search keeps a match that starts before the best so far
IsBetter(n, first_match) == first_match = NoMatch \/ n < first_match.start

\* child.expect(patterns): every pattern is searched (compiled with re.DOTALL
\* alone) and the match that starts first is kept
RECURSIVE expect_search_from(_, _, _)
expect_search_from(buf, k, first_match) ==
    IF k > NumPatterns THEN first_match
    ELSE LET m == re_search(k, buf, FALSE)
         IN  expect_search_from(buf, k + 1,
                 IF m # NoMatch /\ IsBetter(m.start, first_match) THEN m ELSE first_match)

expect_search(buf) == expect_search_from(buf, 1, NoMatch)

\* GenericInteractiveShell._wait_for_prompt: the patterns (compiled with
\* re.MULTILINE) are searched in list order and the loop breaks at the first
\* one that matches
RECURSIVE wait_search_from(_, _)
wait_search_from(buf, k) ==
    IF k > NumPatterns THEN NoMatch
    ELSE LET m == re_search(k, buf, TRUE)
         IN  IF m # NoMatch THEN m ELSE wait_search_from(buf, k + 1)

wait_search(buf) == wait_search_from(buf, 1)

\* a faulty variant of Before: the text through the end of the match
Before_through_match(buf, m) == SubSeq(buf, 1, m.end)

\* text before the match, the match, text after the match
Before(buf, m) == SubSeq(buf, 1, m.start - 1)
Matched(buf, m) == SubSeq(buf, m.start, m.end)
After(buf, m) == SubSeq(buf, m.end + 1, Len(buf))

----------------------------------------------------------------------------
(* Pattern selection alone: every buffer of at most MaxBufLen characters.   *)

RECURSIVE StrsUpTo(_)
StrsUpTo(n) ==
    IF n = 0 THEN {<<>>}
    ELSE LET S == StrsUpTo(n - 1)
         IN  S \cup {Append(s, Mk(c, 0)) : s \in {t \in S : Len(t) = n - 1}, c \in Classes}

NoSel == [p |-> NoMatch, g |-> NoMatch, done |-> FALSE]

MatchApply ==
    /\ ~mSel.done
    /\ mSel' = [p |-> expect_search(mBuf), g |-> wait_search(mBuf), done |-> TRUE]
    /\ UNCHANGED <<mBuf, sessVars, lineVars, toolVars, sideVars>>

----------------------------------------------------------------------------
(* Line writing alone: every command string of at most MaxCmdLen           *)
(* characters, a command string being a sequence of classes.               *)

\* child.sendline(command): the command and os.linesep
sendline(command) == command \o <<"n">>

\* self.process.stdin.write(command + "\n")
write_line(command) == command \o <<"n">>

RECURSIVE CmdsUpTo(_)
CmdsUpTo(n) ==
    IF n = 0 THEN {<<>>}
    ELSE LET S == CmdsUpTo(n - 1)
         IN  S \cup {Append(c, x) : c \in {t \in S : Len(t) = n - 1}, x \in {"a", "s", "n"}}

NoLine == [p |-> <<>>, g |-> <<>>, done |-> FALSE]

LineApply ==
    /\ ~lSent.done
    /\ lSent' = [p |-> sendline(lCmd), g |-> write_line(lCmd), done |-> TRUE]
    /\ UNCHANGED <<lCmd, sessVars, matchVars, toolVars, sideVars>>

----------------------------------------------------------------------------
(* The child process. It is the environment: it writes its pending output  *)
(* at its own pace, a line at a time and its prompt a character at a time,  *)
(* and may exit at any moment (because it read the exit command, crashed or *)
(* was killed from outside).                                               *)

NoChild == [st |-> "none", prompt |-> <<>>]

Prompts == {<<"p", "s">>, <<"p", "p", "s">>}        \* "$ " and ">> "
Banner == <<"a", "n">>
Commands == {<<>>, <<"a">>}
\* what a command may print: the empty line prints nothing
Outs(c) == IF c = <<>> THEN {<<>>} ELSE {<<>>, <<"a", "n">>}
ExitLine == <<"exit">>

NewChild(prompt) == [st |-> "alive", prompt |-> prompt]

\* what a live child queues when it reads the command line c: the echo of
\* the line, the command's output and its prompt
Response(ch, c, out) == Str(c \o <<"n">> \o out \o ch.prompt, 1)

\* the length of the next piece the child writes: a line through its
\* newline, or one character of a prompt
RECURSIVE PieceLen(_, _)
PieceLen(s, i) ==
    IF i >= Len(s) \/ Cls(s[i]) \in {"n", "p", "s"} THEN i ELSE PieceLen(s, i + 1)

ChildEmit ==
    /\ child.st = "alive" /\ todo # <<>>
    /\ LET n == PieceLen(todo, 1)
       IN  /\ pipe' = pipe \o SubSeq(todo, 1, n)
           /\ todo' = SubSeq(todo, n + 1, Len(todo))
    /\ UNCHANGED <<impl, child, buffer, reader, pc, cmd, res, sent, calls, auxVars>>

ChildDie ==
    /\ child.st = "alive"
    /\ child' = [child EXCEPT !.st = "dead"]
    /\ todo' = <<>>
    /\ UNCHANGED <<impl, pipe, buffer, reader, pc, cmd, res, sent, calls, auxVars>>

\* the stream the session reads is at end of file
AtEOF == child.st = "dead" /\ pipe = <<>>

\* the child after SIGHUP and SIGINT (pexpect's terminate(), force=False) or
\* SIGTERM (Popen.terminate()): it dies unless it ignores the signal
Terminated(ch, ignores) ==
    IF ch.st = "alive" /\ ~ignores THEN [ch EXCEPT !.st = "dead"] ELSE ch

\* a faulty variant of Appended: the data read replaces the buffer
Appended_replaces(buf, data) == data

\* data read from the child is put at the end of the buffer
\* (self._output_buffer += data; pexpect's buffer likewise)
Appended(buf, data) == buf \o data

----------------------------------------------------------------------------
(* The call in progress and how a call ended. kind, msg and out are what   *)
(* the caller gets (kind "ok": a normal return of out; otherwise the        *)
(* exception raised). The other fields are ghosts the properties read:      *)
(*   how    what ended the call (guard, spawn, match, timeout, eof, exited) *)
(*   wrote  the call wrote a line to the child's stdin                      *)
(*   after  every call since the last start(), and that start(), returned   *)
(*          normally                                                       *)
(*   late   for a run_command("") accepted right after a run_command that   *)
(*          timed out, when the child has by then written all its output:   *)
(*          what the child wrote and no call returned or consumed           *)

NoRes == [op |-> "none", kind |-> "none", msg |-> "", how |-> "", out |-> <<>>,
          wrote |-> FALSE, after |-> FALSE, late |-> <<>>]

AfterCompleted ==
    res.kind = "ok" /\ (res.op = "start" \/ (res.op = "run" /\ res.after))

Called(op, wrote, late) ==
    [op |-> op, kind |-> "pending", msg |-> "", how |-> "", out |-> <<>>,
     wrote |-> wrote, after |-> AfterCompleted, late |-> late]

\* a call that ends in its first step
Ended(op, kind, msg, how) ==
    [op |-> op, kind |-> kind, msg |-> msg, how |-> how, out |-> <<>>,
     wrote |-> FALSE, after |-> AfterCompleted, late |-> <<>>]

\* a call in progress ends
Ret(kind, msg, how, out) ==
    [res EXCEPT !.kind = kind, !.msg = msg, !.how = how, !.out = out]

Late(c) ==
    IF res.op = "run" /\ res.how = "timeout" /\ todo = <<>> /\ c = <<>>
    THEN Age(buffer \o pipe) ELSE <<>>

----------------------------------------------------------------------------
(* Post-processing shared by both run_command methods.                     *)

\* re.search(re.escape(command) + r'\r?\n', output) matches at offset 0:
\* the position where that match ends, or 0
EchoEnd(command, output) ==
    LET n == Len(command)
    IN  IF n <= Len(output) /\ \A i \in 1..n : Cls(output[i]) = command[i]
        THEN IF At(output, n + 1) = "r" /\ At(output, n + 2) = "n" THEN n + 2
             ELSE IF At(output, n + 1) = "n" THEN n + 1 ELSE 0
        ELSE 0

\* run_command's last lines: drop the echoed command when the output starts
\* with it, and strip
strip_echo(command, command_output) ==
    LET e == EchoEnd(command, command_output)
    IN  IF e > 0 THEN strip(SubSeq(command_output, e + 1, Len(command_output)))
        ELSE strip(command_output)

----------------------------------------------------------------------------
(* InteractiveShell (pexpect_shell.py). The caller is one thread: a call   *)
(* is made when no other call is in progress (pc = "idle").                *)

\* a faulty variant of NotAlive: only a session without a child is refused
NotAlive_no_child_only(ch) == ch.st = "none"

\* run_command's and close's test of the session: no child, or not alive
NotAlive(ch) == ch.st # "alive"

\* a faulty variant of OnExpectTimeout: the text read so far is returned
OnExpectTimeout_returns_partial(buf) == Ret("ok", "", "timeout", strip(buf))

\* _wait_for_prompt when expect raises pexpect.TIMEOUT: TimeoutError
OnExpectTimeout(buf) == Ret("TimeoutError", "timed_out", "timeout", <<>>)

\* _wait_for_prompt when expect raises pexpect.EOF: RuntimeError
OnExpectEOF(buf) == Ret("RuntimeError", "terminated", "eof", <<>>)

\* a faulty variant of SpawnFailure: the exception of the spawn is passed on
SpawnFailure_passed_on == Ended("start", "ExceptionPexpect", "", "spawn")

\* start(), its except clause: whatever the spawn or the isalive() test
\* raised becomes RuntimeError("Could not start shell process: ...")
SpawnFailure == Ended("start", "RuntimeError", "could_not_start", "spawn")

\* start(): pexpect.spawn raises (no such executable)
PStartFails ==
    /\ impl = "pexpect" /\ pc = "idle" /\ calls < MaxCalls
    /\ calls' = calls + 1
    /\ res' = SpawnFailure
    /\ UNCHANGED <<impl, child, todo, pipe, buffer, reader, pc, cmd, sent, auxVars>>

\* start(): the process is not alive right after the spawn
PStartDead ==
    /\ impl = "pexpect" /\ pc = "idle" /\ calls < MaxCalls
    /\ calls' = calls + 1
    /\ \E prompt \in Prompts : child' = [NewChild(prompt) EXCEPT !.st = "dead"]
    /\ todo' = <<>> /\ pipe' = <<>> /\ buffer' = <<>>
    /\ res' = SpawnFailure
    /\ UNCHANGED <<impl, reader, pc, cmd, sent, auxVars>>

\* start(): the process is spawned and the wait for the first prompt begins
PStart ==
    /\ impl = "pexpect" /\ pc = "idle" /\ calls < MaxCalls
    /\ calls' = calls + 1
    /\ \E prompt \in Prompts :
          /\ child' = NewChild(prompt)
          /\ todo' = Str(Banner \o prompt, 1)
    /\ pipe' = <<>> /\ buffer' = <<>>
    /\ res' = Called("start", FALSE, <<>>)
    /\ pc' = "start_wait"
    /\ UNCHANGED <<impl, reader, cmd, sent, auxVars>>

\* run_command(c) on a session that is not running: RuntimeError
PRunRejected ==
    /\ impl = "pexpect" /\ pc = "idle" /\ calls < MaxCalls
    /\ NotAlive(child)
    /\ calls' = calls + 1
    /\ res' = Ended("run", "RuntimeError", "not_started_or_exited", "guard")
    /\ UNCHANGED <<impl, child, todo, pipe, buffer, reader, pc, cmd, sent, auxVars>>

\* run_command(c): sendline(c), then the wait for the prompt begins
PRun ==
    /\ impl = "pexpect" /\ pc = "idle" /\ calls < MaxCalls
    /\ ~NotAlive(child)
    /\ calls' = calls + 1
    /\ \E c \in Commands : \E out \in Outs(c) :
          /\ cmd' = c
          /\ sent' = sendline(c)
          /\ todo' = Age(todo) \o Response(child, c, out)
          /\ res' = Called("run", TRUE, Late(c))
    /\ pipe' = Age(pipe)
    /\ buffer' = Age(buffer)
    /\ pc' = "run_wait"
    /\ UNCHANGED <<impl, child, reader, auxVars>>

\* child.expect(...): read_nonblocking takes what the child has written
PExpectRead ==
    /\ impl = "pexpect" /\ pc \in {"start_wait", "run_wait"}
    /\ expect_search(buffer) = NoMatch
    /\ pipe # <<>>
    /\ buffer' = Appended(buffer, pipe)
    /\ pipe' = <<>>
    /\ UNCHANGED <<impl, child, todo, reader, pc, cmd, res, sent, calls, auxVars>>

\* child.expect(...) returns: a pattern matches the buffer. before is the
\* text ahead of the match, the buffer keeps the text behind it.
PExpectMatch ==
    /\ impl = "pexpect" /\ pc \in {"start_wait", "run_wait"}
    /\ LET m == expect_search(buffer)
           output == strip(Before(buffer, m))
       IN  /\ m # NoMatch
           /\ buffer' = After(buffer, m)
           /\ res' = IF pc = "start_wait" THEN Ret("ok", "", "match", <<>>)
                     ELSE Ret("ok", "", "match", strip_echo(cmd, output))
    /\ pc' = "idle" /\ cmd' = <<>>
    /\ UNCHANGED <<impl, child, todo, pipe, reader, sent, calls, auxVars>>

\* child.expect(...) raises pexpect.TIMEOUT: the buffer is kept as it is
PExpectTimeout ==
    /\ impl = "pexpect" /\ pc \in {"start_wait", "run_wait"}
    /\ expect_search(buffer) = NoMatch
    /\ res' = OnExpectTimeout(buffer)
    /\ pc' = "idle" /\ cmd' = <<>>
    /\ UNCHANGED <<impl, child, todo, pipe, buffer, reader, sent, calls, auxVars>>

\* child.expect(...) raises pexpect.EOF: the child closed its output
PExpectEOF ==
    /\ impl = "pexpect" /\ pc \in {"start_wait", "run_wait"}
    /\ expect_search(buffer) = NoMatch
    /\ AtEOF
    /\ buffer' = <<>>
    /\ res' = OnExpectEOF(buffer)
    /\ pc' = "idle" /\ cmd' = <<>>
    /\ UNCHANGED <<impl, child, todo, pipe, reader, sent, calls, auxVars>>

\* close() on a session with no live child: nothing is done
PCloseNoop ==
    /\ impl = "pexpect" /\ pc = "idle" /\ calls < MaxCalls
    /\ NotAlive(child)
    /\ calls' = calls + 1
    /\ res' = Ended("close", "ok", "", "guard")
    /\ UNCHANGED <<impl, child, todo, pipe, buffer, reader, pc, cmd, sent, auxVars>>

\* close(): sendline(exit_command), then expect(pexpect.EOF, timeout=5)
PClose ==
    /\ impl = "pexpect" /\ pc = "idle" /\ calls < MaxCalls
    /\ ~NotAlive(child)
    /\ calls' = calls + 1
    /\ sent' = ExitLine
    /\ res' = Called("close", TRUE, <<>>)
    /\ pc' = "close_wait"
    /\ UNCHANGED <<impl, child, todo, pipe, buffer, reader, cmd, auxVars>>

\* expect(pexpect.EOF) reads on
PCloseRead ==
    /\ impl = "pexpect" /\ pc = "close_wait"
    /\ pipe # <<>>
    /\ buffer' = Appended(buffer, pipe)
    /\ pipe' = <<>>
    /\ UNCHANGED <<impl, child, todo, reader, pc, cmd, res, sent, calls, auxVars>>

\* expect(pexpect.EOF) returns: the child has exited
PCloseEOF ==
    /\ impl = "pexpect" /\ pc = "close_wait"
    /\ AtEOF
    /\ buffer' = <<>>
    /\ res' = Ret("ok", "", "eof", <<>>)
    /\ pc' = "idle"
    /\ UNCHANGED <<impl, child, todo, pipe, reader, cmd, sent, calls, auxVars>>

\* expect(pexpect.EOF) raises pexpect.TIMEOUT: self.child.terminate(), which
\* sends SIGHUP and SIGINT and, force being False, no SIGKILL
PCloseTimeout ==
    /\ impl = "pexpect" /\ pc = "close_wait"
    /\ \E ignores \in BOOLEAN : child' = Terminated(child, ignores)
    /\ todo' = IF child'.st = "alive" THEN todo ELSE <<>>
    /\ res' = Ret("ok", "", "timeout", <<>>)
    /\ pc' = "idle"
    /\ UNCHANGED <<impl, pipe, buffer, reader, cmd, sent, calls, auxVars>>

----------------------------------------------------------------------------
(* GenericInteractiveShell (shell.py). The caller is one coroutine; the    *)
(* reader task runs whenever the caller is suspended or between its calls. *)
(* An action below is the code between two awaits. start() is called on an *)
(* object whose reader task is not running.                                *)

\* _wait_for_prompt when its time is up: TimeoutError
OnWaitTimeout(buf) == Ret("TimeoutError", "timed_out", "timeout", <<>>)

\* a faulty variant of ClearedBuffer: the buffer is left as it is
ClearedBuffer_kept(buf) == buf

\* run_command's first line after its checks: the buffer is cleared
ClearedBuffer(buf) == <<>>

\* _read_output: one character read from the child is appended to the buffer
GReaderRead ==
    /\ impl = "generic" /\ reader = "running"
    /\ pipe # <<>>
    /\ buffer' = Appended(buffer, <<Head(pipe)>>)
    /\ pipe' = Tail(pipe)
    /\ UNCHANGED <<impl, child, todo, reader, pc, cmd, res, sent, calls, auxVars>>

\* _read_output: read(1) returns nothing (end of file) and the task ends
GReaderEOF ==
    /\ impl = "generic" /\ reader = "running"
    /\ AtEOF
    /\ reader' = "done"
    /\ UNCHANGED <<impl, child, todo, pipe, buffer, pc, cmd, res, sent, calls, auxVars>>

\* start(): subprocess.Popen raises (no such executable); nothing catches it
GStartFails ==
    /\ impl = "generic" /\ pc = "idle" /\ calls < MaxCalls
    /\ reader # "running"
    /\ calls' = calls + 1
    /\ res' = Ended("start", "FileNotFoundError", "", "spawn")
    /\ UNCHANGED <<impl, child, todo, pipe, buffer, reader, pc, cmd, sent, auxVars>>

\* start(): Popen, the reader task, and the first pass of _wait_for_prompt
\* over the buffer, which start() does not clear
GStart ==
    /\ impl = "generic" /\ pc = "idle" /\ calls < MaxCalls
    /\ reader # "running"
    /\ calls' = calls + 1
    /\ \E prompt \in Prompts :
          /\ child' = NewChild(prompt)
          /\ todo' = Str(Banner \o prompt, 1)
    /\ pipe' = <<>>
    /\ reader' = "running"
    /\ LET m == wait_search(buffer)
       IN  IF m # NoMatch
           THEN /\ buffer' = Age(SubSeq(buffer, m.start, Len(buffer)))
                /\ res' = [Called("start", FALSE, <<>>) EXCEPT !.kind = "ok", !.how = "match"]
                /\ pc' = "idle"
           ELSE /\ buffer' = Age(buffer)
                /\ res' = Called("start", FALSE, <<>>)
                /\ pc' = "start_wait"
    /\ UNCHANGED <<impl, cmd, sent, auxVars>>

\* run_command(c) on a session without a process, or whose process has exited
GRunRejected ==
    /\ impl = "generic" /\ pc = "idle" /\ calls < MaxCalls
    /\ NotAlive(child)
    /\ calls' = calls + 1
    /\ res' = Ended("run", "RuntimeError",
                    IF child.st = "none" THEN "not_started" ELSE "exited", "guard")
    /\ UNCHANGED <<impl, child, todo, pipe, buffer, reader, pc, cmd, sent, auxVars>>

\* run_command(c): clear the buffer, write c and a newline, flush, and the
\* first pass of _wait_for_prompt (nothing matches the empty buffer)
GRun ==
    /\ impl = "generic" /\ pc = "idle" /\ calls < MaxCalls
    /\ ~NotAlive(child)
    /\ calls' = calls + 1
    /\ buffer' = ClearedBuffer(buffer)
    /\ \E c \in Commands : \E out \in Outs(c) :
          /\ cmd' = c
          /\ sent' = write_line(c)
          /\ todo' = Age(todo) \o Response(child, c, out)
          /\ res' = Called("run", TRUE, Late(c))
    /\ pipe' = Age(pipe)
    /\ pc' = "run_wait"
    /\ UNCHANGED <<impl, child, reader, auxVars>>

\* _wait_for_prompt, a pass after a sleep: a pattern matches. The text ahead
\* of the match is returned, the buffer keeps the match and what follows.
GWaitMatch ==
    /\ impl = "generic" /\ pc \in {"start_wait", "run_wait"}
    /\ LET m == wait_search(buffer)
           output == strip(Before(buffer, m))
       IN  /\ m # NoMatch
           /\ buffer' = SubSeq(buffer, m.start, Len(buffer))
           /\ res' = IF pc = "start_wait" THEN Ret("ok", "", "match", <<>>)
                     ELSE Ret("ok", "", "match", strip_echo(cmd, output))
    /\ pc' = "idle" /\ cmd' = <<>>
    /\ UNCHANGED <<impl, child, todo, pipe, reader, sent, calls, auxVars>>

\* _wait_for_prompt, a pass after a sleep: the time is up. The test of the
\* clock comes before the search of the buffer.
GWaitTimeout ==
    /\ impl = "generic" /\ pc \in {"start_wait", "run_wait"}
    /\ res' = OnWaitTimeout(buffer)
    /\ pc' = "idle" /\ cmd' = <<>>
    /\ UNCHANGED <<impl, child, todo, pipe, buffer, reader, sent, calls, auxVars>>

\* close(), its last lines: the reader task is cancelled unless it is done
Cancelled(r) == IF r = "running" THEN "cancelled" ELSE r

\* close() on a session without a process, or whose process has exited
GCloseNoop ==
    /\ impl = "generic" /\ pc = "idle" /\ calls < MaxCalls
    /\ NotAlive(child)
    /\ calls' = calls + 1
    /\ reader' = Cancelled(reader)
    /\ res' = Ended("close", "ok", "", "guard")
    /\ UNCHANGED <<impl, child, todo, pipe, buffer, pc, cmd, sent, auxVars>>

\* close(): write "exit\n", flush, then process.wait(5) in the executor
GClose ==
    /\ impl = "generic" /\ pc = "idle" /\ calls < MaxCalls
    /\ ~NotAlive(child)
    /\ calls' = calls + 1
    /\ sent' = ExitLine
    /\ res' = Called("close", TRUE, <<>>)
    /\ pc' = "close_wait"
    /\ UNCHANGED <<impl, child, todo, pipe, buffer, reader, cmd, auxVars>>

\* process.wait(5) returns, the first or the second time: the process has
\* exited, poll() is not None, and the reader task is cancelled
GCloseExited ==
    /\ impl = "generic" /\ pc \in {"close_wait", "close_wait2"}
    /\ child.st = "dead"
    /\ reader' = Cancelled(reader)
    /\ res' = Ret("ok", "", "exited", <<>>)
    /\ pc' = "idle"
    /\ UNCHANGED <<impl, child, todo, pipe, buffer, cmd, sent, calls, auxVars>>

\* the first process.wait(5) raises TimeoutExpired, which except Exception
\* swallows; the finally block sends SIGTERM and waits 5 seconds again
GCloseTerminate ==
    /\ impl = "generic" /\ pc = "close_wait"
    /\ child.st = "alive"
    /\ \E ignores \in BOOLEAN : child' = Terminated(child, ignores)
    /\ todo' = IF child'.st = "alive" THEN todo ELSE <<>>
    /\ pc' = "close_wait2"
    /\ UNCHANGED <<impl, pipe, buffer, reader, cmd, res, sent, calls, auxVars>>

\* the second process.wait(5), inside the finally block, raises
\* TimeoutExpired: it leaves close(), past the kill() and the cancel
GCloseRaises ==
    /\ impl = "generic" /\ pc = "close_wait2"
    /\ child.st = "alive"
    /\ res' = Ret("TimeoutExpired", "", "timeout", <<>>)
    /\ pc' = "idle"
    /\ UNCHANGED <<impl, child, todo, pipe, buffer, reader, cmd, sent, calls, auxVars>>

----------------------------------------------------------------------------
(* The tool layer (shell_mcp.py): the registry _active_sessions and the     *)
(* tools that address a session by its id. A tool call is one step. The     *)
(* shell object behind an id is taken by what its methods do to the caller: *)
(* st is its child (as NoChild.st), pending what the child has written and  *)
(* no run_command has collected, sent the number of lines written to the    *)
(* child, history the command history. The class the tools import (shell's  *)
(* InteractiveShell, with get_command_history) is not in the source tree:   *)
(* its history follows the specification's Command History Entry.           *)

SessionIds == 1..MaxSessions

NoShell == [st |-> "none", pending |-> <<>>, sent |-> 0, history |-> <<>>]

NoTool == [name |-> "none", sid |-> 0, arg |-> <<>>, text |-> "", out |-> <<>>]

ToolInit ==
    /\ objs = [i \in SessionIds |-> NoShell]
    /\ reg = {}
    /\ tool = NoTool
    /\ tcalls = 0

\* a tool call and what it returns (arg: the command argument, if any)
Returned(name, sid, text, out) ==
    [name |-> name, sid |-> sid, arg |-> <<>>, text |-> text, out |-> out]

\* a faulty variant of Unregister: the session stays in the registry
Unregister_kept(sessions, session_id) == sessions

\* del _active_sessions[session_id]
Unregister(sessions, session_id) == sessions \ {session_id}

\* a Command History Entry: full_output keeps the echo and the prompt
Entry(command, output) ==
    [command |-> command, output |-> strip(Str(output, 1)),
     full_output |-> Str(command \o <<"n">> \o output \o <<"p", "s">>, 1)]

\* a faulty variant of Recorded: the new entry replaces the history
Recorded_replaces(history, entry) == <<entry>>

\* run(), its last step: a new entry is put at the end of the history
Recorded(history, entry) == Append(history, entry)

\* a faulty variant of LastOutput: the first entry is taken
LastOutput_first(history) == history[1].full_output

\* get_command_output: history[-1].full_output
LastOutput(history) == history[Len(history)].full_output

\* close_shell_session after its await: del in the try and, when that or
\* close() raised, del in the handler; a del of an id that is gone raises
\* KeyError, in the handler too, and then nothing catches it
CloseOutcome(sessions, session_id, raised) ==
    IF session_id \in sessions
    THEN [text |-> IF raised THEN "closed_with_errors" ELSE "closed", exc |-> ""]
    ELSE [text |-> "", exc |-> "KeyError"]

\* a faulty variant of AfterClose: the session is removed only when close()
\* returned normally
AfterClose_only_clean(sessions, session_id, raised) ==
    IF raised THEN sessions ELSE sessions \ {session_id}

\* close_shell_session: the registry after its del, in the try or in the
\* handler
AfterClose(sessions, session_id, raised) == Unregister(sessions, session_id)

\* a faulty variant of ShellClosed: every shell is closed
ShellClosed_all(shells, session_id, ignores) ==
    [j \in DOMAIN shells |->
        IF NotAlive(shells[j]) THEN shells[j]
        ELSE [shells[j] EXCEPT !.sent = @ + 1, !.st = Terminated(shells[j], ignores).st]]

\* shell.close(exit_command) on the shell of one session: the exit line is
\* written to its child and the child is terminated
ShellClosed(shells, session_id, ignores) ==
    IF NotAlive(shells[session_id]) THEN shells
    ELSE [shells EXCEPT ![session_id].sent = @ + 1,
                        ![session_id].st = Terminated(shells[session_id], ignores).st]

\* a faulty variant of AfterRunError: the session is dropped
AfterRunError_removed(sessions, session_id) == sessions \ {session_id}

\* run_shell_command, its except branch: the registry as it was
AfterRunError(sessions, session_id) == sessions

\* the child of a session writes on, or exits, at its own pace
ToolChildEmit ==
    \E i \in SessionIds :
        /\ objs[i].st = "alive" /\ Len(objs[i].pending) < MaxPending
        /\ objs' = [objs EXCEPT ![i].pending = Append(@, Mk("a", 1))]
        /\ UNCHANGED <<reg, tool, tcalls, sessVars, matchVars, lineVars, sideVars>>

ToolChildDie ==
    \E i \in SessionIds :
        /\ objs[i].st = "alive"
        /\ objs' = [objs EXCEPT ![i].st = "dead"]
        /\ UNCHANGED <<reg, tool, tcalls, sessVars, matchVars, lineVars, sideVars>>

\* start_shell_session: a new id; the shell is registered when start()
\* returns; when start() raises, its child may have been left running
start_shell_session ==
    /\ tcalls < MaxToolCalls /\ tcalls' = tcalls + 1
    /\ \E i \in SessionIds :
          /\ objs[i].st = "none" /\ i \notin reg
          /\ \/ /\ objs' = [objs EXCEPT ![i].st = "alive"]
                /\ reg' = reg \cup {i}
                /\ tool' = Returned("start", i, "started", <<>>)
             \/ /\ \E st \in {"none", "dead", "alive"} :
                      objs' = [objs EXCEPT ![i].st = st]
                /\ reg' = reg
                /\ tool' = Returned("start", i, "failed_to_start", <<>>)
    /\ UNCHANGED <<sessVars, matchVars, lineVars, sideVars>>

\* run_shell_command(session_id, command)
run_shell_command ==
    /\ tcalls < MaxToolCalls /\ tcalls' = tcalls + 1
    /\ \E i \in SessionIds :
          IF i \notin reg
          THEN /\ tool' = Returned("run", i, "not_found", <<>>)
               /\ UNCHANGED <<objs, reg>>
          ELSE IF NotAlive(objs[i])
          THEN /\ reg' = Unregister(reg, i)
               /\ tool' = Returned("run", i, "no_longer_active", <<>>)
               /\ UNCHANGED objs
          ELSE \E c \in Commands : \E out \in Outs(c) :
                  \/ /\ objs' = [objs EXCEPT ![i].sent = @ + 1, ![i].pending = <<>>,
                                    ![i].history = Recorded(@, Entry(c, out))]
                     /\ tool' = [Returned("run", i, "output", Entry(c, out).output)
                                     EXCEPT !.arg = c]
                     /\ reg' = reg
                  \/ /\ objs' = [objs EXCEPT ![i].sent = @ + 1]
                     /\ tool' = [Returned("run", i, "error_executing", <<>>)
                                     EXCEPT !.arg = c]
                     /\ reg' = AfterRunError(reg, i)
    /\ UNCHANGED <<sessVars, matchVars, lineVars, sideVars>>

\* close_shell_session(session_id): close() and, whether it returned or
\* raised, del
close_shell_session ==
    /\ tcalls < MaxToolCalls /\ tcalls' = tcalls + 1
    /\ \E i \in SessionIds :
          IF i \notin reg
          THEN /\ tool' = Returned("close", i, "not_found", <<>>)
               /\ UNCHANGED <<objs, reg>>
          ELSE \E ignores, raised \in BOOLEAN :
                  /\ objs' = ShellClosed(objs, i, ignores)
                  /\ reg' = AfterClose(reg, i, raised)
                  /\ tool' = Returned("close", i, CloseOutcome(reg, i, raised).text, <<>>)
    /\ UNCHANGED <<sessVars, matchVars, lineVars, sideVars>>

\* get_shell_buffer(session_id): the statements after the test of the child
\* are indented under its return; for a live child the function ends and
\* returns None
get_shell_buffer ==
    /\ tcalls < MaxToolCalls /\ tcalls' = tcalls + 1
    /\ \E i \in SessionIds :
          IF i \notin reg
          THEN /\ tool' = Returned("buffer", i, "not_found", <<>>)
               /\ UNCHANGED <<objs, reg>>
          ELSE IF NotAlive(objs[i])
          THEN /\ reg' = Unregister(reg, i)
               /\ tool' = Returned("buffer", i, "no_longer_active", <<>>)
               /\ UNCHANGED objs
          ELSE /\ tool' = Returned("buffer", i, "None", <<>>)
               /\ UNCHANGED <<objs, reg>>
    /\ UNCHANGED <<sessVars, matchVars, lineVars, sideVars>>

\* get_command_output(session_id)
get_command_output ==
    /\ tcalls < MaxToolCalls /\ tcalls' = tcalls + 1
    /\ \E i \in SessionIds :
          IF i \notin reg
          THEN /\ tool' = Returned("output", i, "not_found", <<>>)
               /\ UNCHANGED <<objs, reg>>
          ELSE IF NotAlive(objs[i])
          THEN /\ reg' = Unregister(reg, i)
               /\ tool' = Returned("output", i, "no_longer_active", <<>>)
               /\ UNCHANGED objs
          ELSE /\ tool' = IF objs[i].history = <<>>
                          THEN Returned("output", i, "no_command_history", <<>>)
                          ELSE Returned("output", i, "full_output", LastOutput(objs[i].history))
               /\ UNCHANGED <<objs, reg>>
    /\ UNCHANGED <<sessVars, matchVars, lineVars, sideVars>>

\* a faulty variant of Status: every registered session counts as alive
Status_registered(shell) == "alive"

\* get_active_sessions: "alive" if shell.child and shell.child.isalive()
Status(shell) == IF shell.st = "alive" THEN "alive" ELSE "dead"

\* get_active_sessions: the line of every registered session, by its id
Listing(shells, sessions) ==
    [i \in SessionIds |-> IF i \in sessions THEN Status(shells[i]) ELSE "absent"]

\* get_active_sessions()
get_active_sessions ==
    /\ tcalls < MaxToolCalls /\ tcalls' = tcalls + 1
    /\ tool' = IF reg = {}
               THEN Returned("list", 0, "no_active_sessions", <<>>)
               ELSE Returned("list", 0, "sessions", Listing(objs, reg))
    /\ UNCHANGED <<objs, reg, sessVars, matchVars, lineVars, sideVars>>

\* clear_history() on the shell object of a session
clear_history ==
    /\ tcalls < MaxToolCalls /\ tcalls' = tcalls + 1
    /\ \E i \in reg :
          /\ objs[i].history # <<>>
          /\ objs' = [objs EXCEPT ![i].history = <<>>]
          /\ tool' = Returned("clear", i, "", <<>>)
    /\ UNCHANGED <<reg, sessVars, matchVars, lineVars, sideVars>>

----------------------------------------------------------------------------
(* Overlapping tool calls (shell_mcp.py). Every tool is a coroutine on one  *)
(* event loop: it runs alone up to an await, and while it awaits            *)
(* loop.run_in_executor(None, ...) a thread of the pool runs the method of  *)
(* the shell and the loop runs other tool calls. A task is one tool call    *)
(* in flight; its pc is "exec" while the thread runs. In a shell object, st *)
(* is its child, started whether start() has returned normally, inside the  *)
(* tasks whose thread is in one of its methods.                             *)

TaskIds == 1..MaxTasks

AShell == [st |-> "none", started |-> FALSE, inside |-> {}]

\* op, sid: the tool and its session; text: what the tool returned; exc:
\* the exception it raised instead; of close_all_sessions, snap is the ids
\* copied on entry, rest the ids its loop has still to close, log what each
\* close_shell_session gave it, closed its closed_count
NoTask == [op |-> "none", sid |-> 0, pc |-> "idle", text |-> "", exc |-> "",
           snap |-> {}, rest |-> <<>>, log |-> <<>>, closed |-> 0]

AsyncInit ==
    /\ aObjs = [i \in SessionIds |-> AShell]
    /\ aReg = {}
    /\ aTask = [t \in TaskIds |-> NoTask]
    /\ aCalls = 0

\* a tool call is made in the first task that has none in flight
Free(t) ==
    /\ aTask[t].pc = "idle" /\ aCalls < MaxAsyncCalls
    /\ \A u \in TaskIds : u < t => aTask[u].pc # "idle"

\* the tool call suspended at its await
Awaiting(op, sid) == [NoTask EXCEPT !.op = op, !.sid = sid, !.pc = "exec"]

\* the tool call returned a text
Gave(op, sid, text) == [NoTask EXCEPT !.op = op, !.sid = sid, !.text = text]

\* _active_sessions[session_id] = shell
Registered(sessions, session_id) == sessions \cup {session_id}

\* a faulty variant of AfterFailedStart: the shell is registered all the same
AfterFailedStart_registered(sessions, session_id) == sessions \cup {session_id}

\* start_shell_session, its except branch: the registry as it was
AfterFailedStart(sessions, session_id) == sessions

\* list(_active_sessions.keys()), in the order the ids were registered
Orders(S) ==
    {q \in [1..Cardinality(S) -> S] :
        \A a, b \in 1..Cardinality(S) : a # b => q[a] # q[b]}

\* a faulty variant of CountsAsClosed: every text that says closed counts
CountsAsClosed_any_closed(result) == result \in {"closed", "closed_with_errors"}

\* close_all_sessions: "successfully" in result
CountsAsClosed(result) == result = "closed"

\* close_all_sessions: the ids at the head of its list that are gone from
\* the registry; close_shell_session returns "not found" for each without
\* an await
RECURSIVE Gone(_, _)
Gone(sessions, ids) ==
    IF ids = <<>> \/ Head(ids) \in sessions THEN 0
    ELSE 1 + Gone(sessions, Tail(ids))

\* the child of a session exits at its own pace
AChildDie ==
    \E i \in SessionIds :
        /\ aObjs[i].st = "alive"
        /\ aObjs' = [aObjs EXCEPT ![i].st = "dead"]
        /\ UNCHANGED <<aReg, aTask, aCalls, sessVars, matchVars, lineVars, toolVars, tclVars, liveVars, againVars>>

\* start_shell_session up to its await: a new id, a new shell, start() handed
\* to the pool
AStartCall(t) ==
    /\ Free(t) /\ aCalls' = aCalls + 1
    /\ \E i \in SessionIds :
          /\ aObjs[i].st = "none"
          /\ \A j \in SessionIds : j < i => aObjs[j].st # "none"
          /\ aObjs' = [aObjs EXCEPT ![i].st = "starting", ![i].inside = {t}]
          /\ aTask' = [aTask EXCEPT ![t] = Awaiting("start", i)]
    /\ UNCHANGED <<aReg, sessVars, matchVars, lineVars, toolVars, tclVars, liveVars, againVars>>

\* start_shell_session from its await on: start() returned, and the shell is
\* registered, or raised, and its child is gone or was left running
AStartDone(t) ==
    /\ aTask[t].op = "start" /\ aTask[t].pc = "exec"
    /\ LET i == aTask[t].sid IN
          \/ /\ aObjs' = [aObjs EXCEPT ![i].st = "alive", ![i].started = TRUE,
                                       ![i].inside = @ \ {t}]
             /\ aReg' = Registered(aReg, i)
             /\ aTask' = [aTask EXCEPT ![t] = Gave("start", i, "started")]
          \/ /\ \E st \in {"dead", "alive"} :
                   aObjs' = [aObjs EXCEPT ![i].st = st, ![i].inside = @ \ {t}]
             /\ aReg' = AfterFailedStart(aReg, i)
             /\ aTask' = [aTask EXCEPT ![t] = Gave("start", i, "failed_to_start")]
    /\ UNCHANGED <<aCalls, sessVars, matchVars, lineVars, toolVars, tclVars, liveVars, againVars>>

\* run_shell_command up to its await
ARunCall(t) ==
    /\ Free(t) /\ aCalls' = aCalls + 1
    /\ \E i \in SessionIds :
          IF i \notin aReg
          THEN /\ aTask' = [aTask EXCEPT ![t] = Gave("run", i, "not_found")]
               /\ UNCHANGED <<aObjs, aReg>>
          ELSE IF aObjs[i].st # "alive"
          THEN /\ aReg' = Unregister(aReg, i)
               /\ aTask' = [aTask EXCEPT ![t] = Gave("run", i, "no_longer_active")]
               /\ UNCHANGED aObjs
          ELSE /\ aObjs' = [aObjs EXCEPT ![i].inside = @ \cup {t}]
               /\ aTask' = [aTask EXCEPT ![t] = Awaiting("run", i)]
               /\ UNCHANGED aReg
    /\ UNCHANGED <<sessVars, matchVars, lineVars, toolVars, tclVars, liveVars, againVars>>

\* run_shell_command from its await on: run_command returned or raised
ARunDone(t) ==
    /\ aTask[t].op = "run" /\ aTask[t].pc = "exec"
    /\ LET i == aTask[t].sid IN
          /\ aObjs' = [aObjs EXCEPT ![i].inside = @ \ {t}]
          /\ \E text \in {"output", "error_executing"} :
                aTask' = [aTask EXCEPT ![t] = Gave("run", i, text)]
    /\ UNCHANGED <<aReg, aCalls, sessVars, matchVars, lineVars, toolVars, tclVars, liveVars, againVars>>

\* close_shell_session up to its await
ACloseCall(t) ==
    /\ Free(t) /\ aCalls' = aCalls + 1
    /\ \E i \in SessionIds :
          IF i \notin aReg
          THEN /\ aTask' = [aTask EXCEPT ![t] = Gave("close", i, "not_found")]
               /\ UNCHANGED aObjs
          ELSE /\ aObjs' = [aObjs EXCEPT ![i].inside = @ \cup {t}]
               /\ aTask' = [aTask EXCEPT ![t] = Awaiting("close", i)]
    /\ UNCHANGED <<aReg, sessVars, matchVars, lineVars, toolVars, tclVars, liveVars, againVars>>

\* close_shell_session from its await on: close() returned or raised
ACloseDone(t) ==
    /\ aTask[t].op = "close" /\ aTask[t].pc = "exec"
    /\ LET i == aTask[t].sid IN
       \E ignores, raised \in BOOLEAN :
          LET o == CloseOutcome(aReg, i, raised) IN
          /\ aObjs' = [aObjs EXCEPT ![i].st = Terminated(aObjs[i], ignores).st,
                                    ![i].inside = @ \ {t}]
          /\ aReg' = AfterClose(aReg, i, raised)
          /\ aTask' = [aTask EXCEPT ![t] = [Gave("close", i, o.text) EXCEPT !.exc = o.exc]]
    /\ UNCHANGED <<aCalls, sessVars, matchVars, lineVars, toolVars, tclVars, liveVars, againVars>>

\* close_all_sessions up to its first await: no session, or the ids are
\* copied and close_shell_session is called on the first
ACloseAllCall(t) ==
    /\ Free(t) /\ aCalls' = aCalls + 1
    /\ IF aReg = {}
       THEN /\ aTask' = [aTask EXCEPT ![t] = Gave("close_all", 0, "no_active_sessions")]
            /\ UNCHANGED aObjs
       ELSE \E ids \in Orders(aReg) :
               /\ aObjs' = [aObjs EXCEPT ![ids[1]].inside = @ \cup {t}]
               /\ aTask' = [aTask EXCEPT ![t] =
                               [Awaiting("close_all", ids[1])
                                   EXCEPT !.snap = aReg, !.rest = Tail(ids)]]
    /\ UNCHANGED <<aReg, sessVars, matchVars, lineVars, toolVars, tclVars, liveVars, againVars>>

\* close_all_sessions from one await to the next, or to its return: the
\* close_shell_session it awaited ends, its result is counted, and the loop
\* goes on to the next id that is still registered
ACloseAllDone(t) ==
    /\ aTask[t].op = "close_all" /\ aTask[t].pc = "exec"
    /\ LET me == aTask[t]
           i == me.sid
       IN
       \E ignores, raised \in BOOLEAN :
          LET o == CloseOutcome(aReg, i, raised)
              sessions == AfterClose(aReg, i, raised)
              gone == Gone(sessions, me.rest)
              log == me.log \o <<IF o.exc # "" THEN o.exc ELSE o.text>>
                            \o [k \in 1..gone |-> "not_found"]
              closed == IF o.exc = "" /\ CountsAsClosed(o.text)
                        THEN me.closed + 1 ELSE me.closed
              rest == SubSeq(me.rest, gone + 1, Len(me.rest))
              shells == [aObjs EXCEPT ![i].st = Terminated(aObjs[i], ignores).st,
                                      ![i].inside = @ \ {t}]
          IN
          /\ aReg' = sessions
          /\ IF rest = <<>>
             THEN /\ aObjs' = shells
                  /\ aTask' = [aTask EXCEPT ![t] =
                                  [me EXCEPT !.pc = "idle", !.text = "closed_count",
                                             !.rest = rest, !.log = log,
                                             !.closed = closed]]
             ELSE /\ aObjs' = [shells EXCEPT ![Head(rest)].inside = @ \cup {t}]
                  /\ aTask' = [aTask EXCEPT ![t] =
                                  [me EXCEPT !.sid = Head(rest), !.rest = Tail(rest),
                                             !.log = log, !.closed = closed]]
    /\ UNCHANGED <<aCalls, sessVars, matchVars, lineVars, toolVars, tclVars, liveVars, againVars>>

\* get_command_output: it has no await
AGetOutput(t) ==
    /\ Free(t) /\ aCalls' = aCalls + 1
    /\ \E i \in SessionIds :
          IF i \notin aReg
          THEN /\ aTask' = [aTask EXCEPT ![t] = Gave("output", i, "not_found")]
               /\ UNCHANGED aReg
          ELSE IF aObjs[i].st # "alive"
          THEN /\ aReg' = Unregister(aReg, i)
               /\ aTask' = [aTask EXCEPT ![t] = Gave("output", i, "no_longer_active")]
          ELSE /\ aTask' = [aTask EXCEPT ![t] = Gave("output", i, "full_output")]
               /\ UNCHANGED aReg
    /\ UNCHANGED <<aObjs, sessVars, matchVars, lineVars, toolVars, tclVars, liveVars, againVars>>

----------------------------------------------------------------------------
(* run_tcl (tcl.py): one tclsh for all calls, kept in _tcl_process. A line  *)
(* of output is the number of the call whose command tclsh wrote it for     *)
(* (a ghost: the code cannot tell). tclsh on a pipe writes no prompt, and   *)
(* line.strip() == "% " holds of no line, so the read loop ends by its      *)
(* 2-second limit or by end of file.                                        *)

NoTcl == [pc |-> "idle", id |-> 0, out |-> <<>>, text |-> "", exc |-> "", fail |-> ""]

TclInit ==
    /\ tProc = "none"
    /\ tTodo = <<>> /\ tPipe = <<>>
    /\ tReaders = 0
    /\ tTask = [t \in TaskIds |-> NoTcl]
    /\ tCalls = 0

\* a line of output that tclsh writes for the command of call id (of is a
\* ghost), and the line that holds nothing but its prompt, "% "
OutLine(id) == [of |-> id, text |-> Str(<<"a", "n">>, 1)]
PromptLine(id) == [of |-> id, text |-> Str(<<"p", "s", "n">>, 1)]

\* what tclsh writes for the command of call id: some lines, the last of
\* them its prompt line or not (tclsh prompts when it is interactive)
TclLines(id) ==
    LET outs == {[k \in 1..n |-> OutLine(id)] : n \in 0..MaxLines}
    IN  outs \cup {[ls EXCEPT ![Len(ls)] = PromptLine(id)] : ls \in outs \ {<<>>}}

\* the read loop's test of a line: line.strip() == "% "
AtPrompt(line) == strip(line) = Str(<<"p", "s">>, 1)

\* a faulty variant of NeedsSpawn: a process that has exited is replaced
NeedsSpawn_unless_running(proc) == proc # "alive"

\* run_tcl's test before Popen: _tcl_process is None
NeedsSpawn(proc) == proc = "none"

\* a faulty variant of OnTclFailure: the exception is passed on
OnTclFailure_raises(e) == [text |-> "", exc |-> e]

\* the outer handler: except Exception as e: return "Error executing Tcl
\* command: ..."
OnTclFailure(e) == [text |-> "error_executing_tcl", exc |-> ""]

\* asyncio.wait_for(run_in_executor(None, readline), 0.1) timed out: the
\* future is cancelled, the readline stays blocked in its pool thread
Abandoned(readers) == IF readers < MaxReaders THEN readers + 1 ELSE readers

\* the call ended in the outer handler
TclFailed(t, id, e) ==
    [NoTcl EXCEPT !.id = id, !.fail = e,
                  !.text = OnTclFailure(e).text, !.exc = OnTclFailure(e).exc]

\* tclsh writes its next line
TclEmit ==
    /\ tProc = "alive" /\ tTodo # <<>>
    /\ tPipe' = Append(tPipe, Head(tTodo))
    /\ tTodo' = Tail(tTodo)
    /\ UNCHANGED <<tProc, tReaders, tTask, tCalls,
                   sessVars, matchVars, lineVars, toolVars, asyncVars, liveVars, againVars>>

\* tclsh exits (an exit command, an error, a signal)
TclDie ==
    /\ tProc = "alive"
    /\ tProc' = "dead" /\ tTodo' = <<>>
    /\ UNCHANGED <<tPipe, tReaders, tTask, tCalls,
                   sessVars, matchVars, lineVars, toolVars, asyncVars, liveVars, againVars>>

\* a readline left blocked by an earlier time-out takes the next line; its
\* future was cancelled, the line goes nowhere
TclStolen ==
    /\ tReaders > 0 /\ tPipe # <<>>
    /\ tPipe' = Tail(tPipe)
    /\ tReaders' = tReaders - 1
    /\ UNCHANGED <<tProc, tTodo, tTask, tCalls,
                   sessVars, matchVars, lineVars, toolVars, asyncVars, liveVars, againVars>>

\* run_tcl up to its first await (the sleep): Popen when there is no
\* process yet, then the command line is written and flushed
TclCall(t) ==
    /\ tTask[t].pc = "idle" /\ tCalls < MaxTclCalls
    /\ \A u \in TaskIds : u < t => tTask[u].pc # "idle"
    /\ tCalls' = tCalls + 1
    /\ LET id == tCalls + 1 IN
          \/ /\ NeedsSpawn(tProc)
             /\ tTask' = [tTask EXCEPT ![t] = TclFailed(t, id, "spawn")]
             /\ UNCHANGED <<tProc, tTodo>>
          \/ /\ ~NeedsSpawn(tProc) /\ tProc = "dead"
             /\ tTask' = [tTask EXCEPT ![t] = TclFailed(t, id, "write")]
             /\ UNCHANGED <<tProc, tTodo>>
          \/ /\ NeedsSpawn(tProc) \/ tProc = "alive"
             /\ tProc' = "alive"
             /\ \E lines \in TclLines(id) : tTodo' = tTodo \o lines
             /\ tTask' = [tTask EXCEPT ![t] = [NoTcl EXCEPT !.id = id, !.pc = "read"]]
    /\ UNCHANGED <<tPipe, tReaders,
                   sessVars, matchVars, lineVars, toolVars, asyncVars, liveVars, againVars>>

\* the read loop: readline returned a line in time; output += line
TclReadLine(t) ==
    /\ tTask[t].pc = "read"
    /\ tReaders = 0 /\ tPipe # <<>>
    /\ tTask' = IF AtPrompt(Head(tPipe).text)
                THEN [tTask EXCEPT ![t].out = Append(@, Head(tPipe)),
                                   ![t].pc = "idle", ![t].text = "output"]
                ELSE [tTask EXCEPT ![t].out = Append(@, Head(tPipe))]
    /\ tPipe' = Tail(tPipe)
    /\ UNCHANGED <<tProc, tTodo, tReaders, tCalls,
                   sessVars, matchVars, lineVars, toolVars, asyncVars, liveVars, againVars>>

\* the read loop: no line within 0.1 s; except asyncio.TimeoutError: continue
TclReadTimeout(t) ==
    /\ tTask[t].pc = "read"
    /\ tReaders' = Abandoned(tReaders)
    /\ tReaders' # tReaders
    /\ UNCHANGED <<tProc, tTodo, tPipe, tTask, tCalls,
                   sessVars, matchVars, lineVars, toolVars, asyncVars, liveVars, againVars>>

\* the read loop: readline returned "" (end of file); the blocked readlines
\* return with it; return output.strip()
TclReadEOF(t) ==
    /\ tTask[t].pc = "read"
    /\ tProc = "dead" /\ tPipe = <<>>
    /\ tReaders' = 0
    /\ tTask' = [tTask EXCEPT ![t].pc = "idle", ![t].text = "output"]
    /\ UNCHANGED <<tProc, tTodo, tPipe, tCalls,
                   sessVars, matchVars, lineVars, toolVars, asyncVars, liveVars, againVars>>

\* the read loop: 2 seconds have passed; return output.strip()
TclLimit(t) ==
    /\ tTask[t].pc = "read"
    /\ tTask' = [tTask EXCEPT ![t].pc = "idle", ![t].text = "output"]
    /\ UNCHANGED <<tProc, tTodo, tPipe, tReaders, tCalls,
                   sessVars, matchVars, lineVars, toolVars, asyncVars, liveVars, againVars>>

----------------------------------------------------------------------------
(* The calls of a session and the stdin of its child. What the session      *)
(* writes (child.sendline; process.stdin.write and flush) goes into a pty   *)
(* or pipe of bounded capacity that only the child empties, and a write for *)
(* which there is no room blocks. The output of the child is taken here by  *)
(* whether the buffer holds a prompt; a line is one or more units of the    *)
(* capacity. impl tells the class, as above.                                *)

LiveInit ==
    /\ wChild = "none"
    /\ wStdin = 0 /\ wLeft = 0
    /\ wFound = FALSE
    /\ wPc = "idle" /\ wRes = "none"
    /\ wCalls = 0

notLive == <<sessVars, matchVars, lineVars, toolVars, asyncVars, tclVars, againVars>>

\* the child reads from its stdin, when and if it does
LChildRead ==
    /\ wChild = "alive" /\ wStdin > 0
    /\ wStdin' = wStdin - 1
    /\ UNCHANGED <<wChild, wLeft, wFound, wPc, wRes, wCalls, notLive>>

\* the child writes a prompt
LChildPrompt ==
    /\ wChild = "alive" /\ ~wFound
    /\ wFound' = TRUE
    /\ UNCHANGED <<wChild, wStdin, wLeft, wPc, wRes, wCalls, notLive>>

\* the child exits
LChildDie ==
    /\ wChild = "alive"
    /\ wChild' = "dead" /\ wStdin' = 0
    /\ UNCHANGED <<wLeft, wFound, wPc, wRes, wCalls, notLive>>

\* start(): the spawn fails, or the child runs and the prompt is awaited
LStart ==
    /\ wPc = "idle" /\ wCalls < MaxLiveCalls /\ wCalls' = wCalls + 1
    /\ wChild = "none"
    /\ \/ /\ wRes' = IF impl = "pexpect" THEN "RuntimeError" ELSE "OSError"
          /\ UNCHANGED <<wChild, wPc>>
       \/ /\ wChild' = "alive" /\ wPc' = "start_wait" /\ wRes' = "pending"
    /\ UNCHANGED <<wStdin, wLeft, wFound, notLive>>

\* run_command(command): rejected without a running child; else the buffer
\* is cleared (generic) and the command line is to be written
LRun ==
    /\ wPc = "idle" /\ wCalls < MaxLiveCalls /\ wCalls' = wCalls + 1
    /\ IF wChild # "alive"
       THEN /\ wRes' = "RuntimeError"
            /\ UNCHANGED <<wLeft, wFound, wPc>>
       ELSE /\ \E n \in 1..MaxLine : wLeft' = n
            /\ wFound' = IF impl = "generic" THEN FALSE ELSE wFound
            /\ wPc' = "run_write" /\ wRes' = "pending"
    /\ UNCHANGED <<wChild, wStdin, notLive>>

\* close(): nothing without a running child; else the exit line is to be
\* written
LClose ==
    /\ wPc = "idle" /\ wCalls < MaxLiveCalls /\ wCalls' = wCalls + 1
    /\ IF wChild # "alive"
       THEN /\ wRes' = "ok"
            /\ UNCHANGED <<wLeft, wPc>>
       ELSE /\ wLeft' = 1
            /\ wPc' = "close_write" /\ wRes' = "pending"
    /\ UNCHANGED <<wChild, wStdin, wFound, notLive>>

\* the write goes on as far as the child's stdin has room; once the line is
\* written the call goes on to its wait
LWrite ==
    /\ wPc \in {"run_write", "close_write"}
    /\ wChild = "alive" /\ wStdin < PipeCapacity
    /\ wStdin' = wStdin + 1
    /\ wLeft' = wLeft - 1
    /\ wPc' = IF wLeft > 1 THEN wPc
              ELSE IF wPc = "run_write" THEN "run_wait" ELSE "close_wait"
    /\ UNCHANGED <<wChild, wFound, wRes, wCalls, notLive>>

\* the write finds the child gone: run_command raises, close() goes on and
\* finds nothing left to terminate
LWriteBroken ==
    /\ wPc \in {"run_write", "close_write"}
    /\ wChild = "dead"
    /\ wLeft' = 0
    /\ wRes' = IF wPc = "close_write" THEN "ok"
               ELSE IF impl = "generic" THEN "BrokenPipeError" ELSE "OSError"
    /\ wPc' = "idle"
    /\ UNCHANGED <<wChild, wStdin, wFound, wCalls, notLive>>

\* _wait_for_prompt: a prompt pattern matches
LWaitMatch ==
    /\ wPc \in {"start_wait", "run_wait"}
    /\ wFound
    /\ wFound' = (impl = "generic")
    /\ wRes' = "ok" /\ wPc' = "idle"
    /\ UNCHANGED <<wChild, wStdin, wLeft, wCalls, notLive>>

\* _wait_for_prompt: the time is up
LWaitTimeout ==
    /\ wPc \in {"start_wait", "run_wait"}
    /\ impl = "generic" \/ ~wFound
    /\ wRes' = "TimeoutError" /\ wPc' = "idle"
    /\ UNCHANGED <<wChild, wStdin, wLeft, wFound, wCalls, notLive>>

\* _wait_for_prompt (pexpect): end of file
LWaitEOF ==
    /\ impl = "pexpect" /\ wPc \in {"start_wait", "run_wait"}
    /\ wChild = "dead" /\ ~wFound
    /\ wRes' = "RuntimeError" /\ wPc' = "idle"
    /\ UNCHANGED <<wChild, wStdin, wLeft, wFound, wCalls, notLive>>

\* close(): the child has exited
LCloseExited ==
    /\ wPc \in {"close_wait", "close_wait2"}
    /\ wChild = "dead"
    /\ wRes' = "ok" /\ wPc' = "idle"
    /\ UNCHANGED <<wChild, wStdin, wLeft, wFound, wCalls, notLive>>

\* close() (pexpect): expect(EOF, timeout=5) timed out; terminate()
LCloseTimeout ==
    /\ impl = "pexpect" /\ wPc = "close_wait"
    /\ wChild = "alive"
    /\ \E ignores \in BOOLEAN : wChild' = Terminated([st |-> wChild], ignores).st
    /\ wStdin' = IF wChild' = "alive" THEN wStdin ELSE 0
    /\ wRes' = "ok" /\ wPc' = "idle"
    /\ UNCHANGED <<wLeft, wFound, wCalls, notLive>>

\* close() (generic): process.wait(5) timed out; terminate() and the second
\* process.wait(5)
LCloseTerminate ==
    /\ impl = "generic" /\ wPc = "close_wait"
    /\ wChild = "alive"
    /\ \E ignores \in BOOLEAN : wChild' = Terminated([st |-> wChild], ignores).st
    /\ wStdin' = IF wChild' = "alive" THEN wStdin ELSE 0
    /\ wPc' = "close_wait2"
    /\ UNCHANGED <<wLeft, wFound, wRes, wCalls, notLive>>

\* close() (generic): the second process.wait(5) raises TimeoutExpired
LCloseRaises ==
    /\ impl = "generic" /\ wPc = "close_wait2"
    /\ wChild = "alive"
    /\ wRes' = "TimeoutExpired" /\ wPc' = "idle"
    /\ UNCHANGED <<wChild, wStdin, wLeft, wFound, wCalls, notLive>>

----------------------------------------------------------------------------
(* start() and close() called in any order on one session object. Neither  *)
(* start() looks at the child the object already holds: it assigns the new *)
(* one over it, and the generic class also assigns the new reader task     *)
(* over the earlier one. Here a call is one step, taken with its outcome;  *)
(* the reader tasks run between the calls. rBuf counts what they append.   *)

notAgain == <<sessVars, matchVars, lineVars, toolVars, asyncVars, tclVars, liveVars>>

AgainInit ==
    /\ rChild = "none" /\ rOrphans = 0
    /\ rReader = "none" /\ rOld = 0
    /\ rUnread = 0 /\ rBuf = 0
    /\ rRes = [op |-> "none", kind |-> "none"]
    /\ rCalls = 0

\* what start() adds to the live children nothing refers to, when it assigns
\* over a child in state st. subprocess.Popen keeps a running child when it
\* is dropped; pexpect.spawn ends its child if and when it is finalized
Unreferenced(st, finalized) == IF st = "alive" /\ ~finalized THEN 1 ELSE 0

\* the child writes a character
RChildWrite ==
    /\ rChild = "alive" /\ rUnread < MaxUnread
    /\ rUnread' = rUnread + 1
    /\ UNCHANGED <<rChild, rOrphans, rReader, rOld, rBuf, rRes, rCalls, notAgain>>

\* the child exits
RChildDie ==
    /\ rChild = "alive"
    /\ rChild' = "dead"
    /\ UNCHANGED <<rOrphans, rReader, rOld, rUnread, rBuf, rRes, rCalls, notAgain>>

\* a child that nothing refers to exits
ROrphanDie ==
    /\ rOrphans > 0
    /\ rOrphans' = rOrphans - 1
    /\ UNCHANGED <<rChild, rReader, rOld, rUnread, rBuf, rRes, rCalls, notAgain>>

\* _read_output, the task in self._reader_task: a character is appended
RRead ==
    /\ impl = "generic" /\ rReader = "running"
    /\ rUnread > 0 /\ rBuf < MaxUnread
    /\ rUnread' = rUnread - 1
    /\ rBuf' = rBuf + 1
    /\ UNCHANGED <<rChild, rOrphans, rReader, rOld, rRes, rCalls, notAgain>>

\* _read_output, the task in self._reader_task: end of file
RReaderEOF ==
    /\ impl = "generic" /\ rReader = "running"
    /\ rChild = "dead" /\ rUnread = 0
    /\ rReader' = "done"
    /\ UNCHANGED <<rChild, rOrphans, rOld, rUnread, rBuf, rRes, rCalls, notAgain>>

\* _read_output, an earlier task: its read of the stdout of a child that
\* nothing refers to returns a character, or its next read, which is of
\* self.process.stdout, does; the character is appended
ROldRead ==
    /\ impl = "generic" /\ rOld > 0
    /\ rBuf < MaxUnread
    /\ \/ /\ rOrphans > 0
          /\ UNCHANGED rUnread
       \/ /\ rUnread > 0
          /\ rUnread' = rUnread - 1
    /\ rBuf' = rBuf + 1
    /\ UNCHANGED <<rChild, rOrphans, rReader, rOld, rRes, rCalls, notAgain>>

\* _read_output, an earlier task: end of file of the stdout it reads
ROldEnd ==
    /\ impl = "generic" /\ rOld > 0
    /\ rOld > rOrphans \/ (rChild = "dead" /\ rUnread = 0)
    /\ rOld' = rOld - 1
    /\ UNCHANGED <<rChild, rOrphans, rReader, rUnread, rBuf, rRes, rCalls, notAgain>>

\* start(): the spawn fails; or the new child and (generic) the new reader
\* task are assigned, and the prompt comes in time or does not
RStart ==
    /\ rCalls < MaxAgainCalls /\ rCalls' = rCalls + 1
    /\ rBuf' = 0
    /\ \/ /\ rRes' = [op |-> "start",
                      kind |-> IF impl = "pexpect" THEN "RuntimeError" ELSE "OSError"]
          /\ UNCHANGED <<rChild, rOrphans, rReader, rOld, rUnread>>
       \/ /\ \E finalized \in {b \in BOOLEAN : impl = "generic" => ~b} :
                rOrphans' = rOrphans + Unreferenced(rChild, finalized)
          /\ rChild' = "alive"
          /\ rUnread' = 0
          /\ IF impl = "generic"
             THEN /\ rOld' = rOld + (IF rReader = "running" THEN 1 ELSE 0)
                  /\ rReader' = "running"
             ELSE UNCHANGED <<rReader, rOld>>
          /\ \E kind \in {"ok", "TimeoutError"} : rRes' = [op |-> "start", kind |-> kind]
    /\ UNCHANGED notAgain

\* close(): a child that runs is sent the exit line and, if it stays, a
\* signal; it exits, or it outlasts both. Then (generic, unless the second
\* wait raised) self._reader_task is cancelled
RClose ==
    /\ rCalls < MaxAgainCalls /\ rCalls' = rCalls + 1
    /\ rBuf' = 0
    /\ \E exits \in BOOLEAN :
          IF rChild = "alive" /\ ~exits
          THEN /\ rRes' = [op |-> "close",
                           kind |-> IF impl = "generic" THEN "TimeoutExpired" ELSE "ok"]
               /\ UNCHANGED <<rChild, rReader>>
          ELSE /\ rChild' = IF rChild = "alive" THEN "dead" ELSE rChild
               /\ rReader' = IF impl = "generic" THEN Cancelled(rReader) ELSE rReader
               /\ rRes' = [op |-> "close", kind |-> "ok"]
    /\ UNCHANGED <<rOrphans, rOld, rUnread, notAgain>>

SideInit ==
    /\ AsyncInit
    /\ TclInit
    /\ LiveInit
    /\ AgainInit

----------------------------------------------------------------------------
(* Specifications.                                                         *)

SessInit ==
    /\ child = NoChild
    /\ todo = <<>> /\ pipe = <<>> /\ buffer = <<>>
    /\ reader = "none"
    /\ pc = "idle"
    /\ cmd = <<>>
    /\ res = NoRes
    /\ sent = <<>>
    /\ calls = 0

\* the state after the constructor, of either class
Init ==
    /\ impl \in {"pexpect", "generic"}
    /\ SessInit
    /\ mBuf = <<>> /\ mSel = NoSel
    /\ lCmd = <<>> /\ lSent = NoLine
    /\ ToolInit
    /\ SideInit

Next ==
    \/ ChildEmit \/ ChildDie
    \/ PStartFails \/ PStartDead \/ PStart
    \/ PRunRejected \/ PRun
    \/ PExpectRead \/ PExpectMatch \/ PExpectTimeout \/ PExpectEOF
    \/ PCloseNoop \/ PClose \/ PCloseRead \/ PCloseEOF \/ PCloseTimeout
    \/ GReaderRead \/ GReaderEOF
    \/ GStartFails \/ GStart
    \/ GRunRejected \/ GRun
    \/ GWaitMatch \/ GWaitTimeout
    \/ GCloseNoop \/ GClose \/ GCloseExited \/ GCloseTerminate \/ GCloseRaises

Spec == Init /\ [][Next]_vars

\* pattern selection on every buffer of at most MaxBufLen characters
InitMatch ==
    /\ impl = "pexpect"
    /\ SessInit
    /\ mBuf \in StrsUpTo(MaxBufLen) /\ mSel = NoSel
    /\ lCmd = <<>> /\ lSent = NoLine
    /\ ToolInit
    /\ SideInit

NextMatch == MatchApply

SpecMatch == InitMatch /\ [][NextMatch]_vars

\* line writing on every command string of at most MaxCmdLen characters
InitLine ==
    /\ impl = "pexpect"
    /\ SessInit
    /\ mBuf = <<>> /\ mSel = NoSel
    /\ lCmd \in CmdsUpTo(MaxCmdLen) /\ lSent = NoLine
    /\ ToolInit
    /\ SideInit

NextLine == LineApply

SpecLine == InitLine /\ [][NextLine]_vars

\* the tool layer on its registry
InitTools ==
    /\ impl = "pexpect"
    /\ SessInit
    /\ mBuf = <<>> /\ mSel = NoSel
    /\ lCmd = <<>> /\ lSent = NoLine
    /\ ToolInit
    /\ SideInit

NextTools ==
    \/ ToolChildEmit \/ ToolChildDie
    \/ start_shell_session \/ run_shell_command \/ close_shell_session
    \/ get_shell_buffer \/ get_command_output \/ clear_history
    \/ get_active_sessions

SpecTools == InitTools /\ [][NextTools]_vars

\* the tool layer with tool calls that overlap at their awaits
InitAsync ==
    /\ impl = "pexpect"
    /\ SessInit
    /\ mBuf = <<>> /\ mSel = NoSel
    /\ lCmd = <<>> /\ lSent = NoLine
    /\ ToolInit
    /\ SideInit

NextAsync ==
    \/ AChildDie
    \/ \E t \in TaskIds :
          \/ AStartCall(t) \/ AStartDone(t)
          \/ ARunCall(t) \/ ARunDone(t)
          \/ ACloseCall(t) \/ ACloseDone(t)
          \/ ACloseAllCall(t) \/ ACloseAllDone(t)
          \/ AGetOutput(t)

SpecAsync == InitAsync /\ [][NextAsync]_vars

\* the calls of a session with the stdin of the child, time passing: a step
\* of the session that can be taken is not put off forever
InitLive ==
    /\ impl \in {"pexpect", "generic"}
    /\ SessInit
    /\ mBuf = <<>> /\ mSel = NoSel
    /\ lCmd = <<>> /\ lSent = NoLine
    /\ ToolInit
    /\ SideInit

LSteps ==
    \/ LWrite \/ LWriteBroken
    \/ LWaitMatch \/ LWaitTimeout \/ LWaitEOF
    \/ LCloseExited \/ LCloseTimeout \/ LCloseTerminate \/ LCloseRaises

NextLive ==
    \/ LChildRead \/ LChildPrompt \/ LChildDie
    \/ LStart \/ LRun \/ LClose
    \/ LSteps

SpecLive == InitLive /\ [][NextLive]_vars /\ WF_vars(LSteps)

\* run_tcl calls on the one persistent tclsh
InitTcl ==
    /\ impl = "pexpect"
    /\ SessInit
    /\ mBuf = <<>> /\ mSel = NoSel
    /\ lCmd = <<>> /\ lSent = NoLine
    /\ ToolInit
    /\ SideInit

NextTcl ==
    \/ TclEmit \/ TclDie \/ TclStolen
    \/ \E t \in TaskIds :
          \/ TclCall(t)
          \/ TclReadLine(t) \/ TclReadTimeout(t) \/ TclReadEOF(t) \/ TclLimit(t)

SpecTcl == InitTcl /\ [][NextTcl]_vars

\* start() and close() in any order on one session object
InitAgain ==
    /\ impl \in {"pexpect", "generic"}
    /\ SessInit
    /\ mBuf = <<>> /\ mSel = NoSel
    /\ lCmd = <<>> /\ lSent = NoLine
    /\ ToolInit
    /\ SideInit

NextAgain ==
    \/ RChildWrite \/ RChildDie \/ ROrphanDie
    \/ RRead \/ RReaderEOF \/ ROldRead \/ ROldEnd
    \/ RStart \/ RClose

SpecAgain == InitAgain /\ [][NextAgain]_vars

----------------------------------------------------------------------------
(* Properties.                                                             *)

\* C1 (as the specification words it): a run_command whose timeout elapses
\* before a prompt pattern matched returns normally.
C1_TimeoutReturnsNormally ==
    (res.op = "run" /\ res.how = "timeout") => res.kind = "ok"

\* C1 (as the code behaves): a run_command whose timeout elapses before a
\* prompt pattern matched raises TimeoutError; no output is returned.
C1_TimeoutRaises ==
    (res.op = "run" /\ res.how = "timeout")
        => (res.kind = "TimeoutError" /\ res.msg = "timed_out" /\ res.out = <<>>)

\* a run_command timed out after the session had read part of the output
C1_Witness ==
    /\ res.op = "run" /\ res.how = "timeout" /\ res.kind = "TimeoutError"
    /\ buffer # <<>>

\* C2: the output of a run_command that follows a completed start() or
\* run_command (here: no call since the start has timed out or failed) holds
\* only characters the child wrote after this command was sent.
C2_NoStaleBytes ==
    (res.op = "run" /\ res.kind = "ok" /\ res.after)
        => \A i \in DOMAIN res.out : Tag(res.out[i]) = 1

\* C3: a run_command on a session that was never started or whose child is
\* not alive raises RuntimeError and writes nothing to the child.
C3_NotRunningRejected ==
    [][(pc = "idle" /\ calls' = calls + 1 /\ res'.op = "run" /\ child.st # "alive")
        => /\ res'.kind = "RuntimeError" /\ res'.how = "guard"
           /\ ~res'.wrote /\ sent' = sent /\ todo' = todo
           /\ child' = child /\ pc' = "idle"]_vars

\* run_command was refused on a session whose child had died
C3_Witness ==
    /\ res.op = "run" /\ res.how = "guard" /\ res.kind = "RuntimeError"
    /\ child.st = "dead" /\ sent # <<>>

\* C4: Closed is terminal: once the child of a session is dead, no operation
\* gives the session a live child again.
C4_ClosedIsTerminal ==
    [][child.st = "dead" => child'.st = "dead"]_vars

\* the text of late that lies ahead of the first place where a prompt
\* pattern matches it, stripped
C5_AheadOfPrompt(late) ==
    LET S == {i \in 1..Len(late) :
                 \E k \in 1..NumPatterns : MatchEnd(k, late, i, FALSE) > 0}
    IN  IF S = {} THEN strip(late)
        ELSE strip(SubSeq(late, 1, (CHOOSE x \in S : \A y \in S : x <= y) - 1))

\* C5 (as the specification words it): a run_command("") made after a
\* timed-out command has finished returns output that contains the prompt.
C5_LateRunReturnsPrompt ==
    (res.op = "run" /\ res.kind = "ok" /\ res.late # <<>>)
        => \E i \in DOMAIN res.out : Cls(res.out[i]) = "p"

\* C5 (as the code behaves): a timeout ends run_command and touches neither
\* the child nor what it wrote; a further run_command on the live child is
\* accepted; InteractiveShell then returns the pending text ahead of its
\* first prompt match, GenericInteractiveShell starts from an empty buffer.
C5_AfterTimeout ==
    [][/\ (pc = "run_wait" /\ pc' = "idle" /\ res'.how = "timeout")
            => (child' = child /\ todo' = todo /\ pipe' = pipe /\ buffer' = buffer)
       /\ (pc = "idle" /\ res.op = "run" /\ res.how = "timeout" /\ child.st = "alive"
              /\ calls' = calls + 1 /\ res'.op = "run")
            => (res'.kind = "pending" /\ res'.wrote /\ pc' = "run_wait")
       /\ (impl = "pexpect" /\ pc = "run_wait" /\ pc' = "idle" /\ res.late # <<>>
              /\ res'.kind = "ok")
            => res'.out = C5_AheadOfPrompt(res.late)
       /\ (impl = "generic" /\ pc = "idle" /\ pc' = "run_wait")
            => buffer' = <<>>]_vars

\* InteractiveShell returned from a run_command("") made after a timed-out
\* command had finished
C5_Witness ==
    /\ impl = "pexpect" /\ res.op = "run" /\ res.kind = "ok" /\ res.late # <<>>
    /\ res.out # <<>>

\* C6: when the child's output stream is seen closed while run_command waits
\* for a prompt, the wait ends by reporting that the process terminated.
C6_StreamClosedStopsWait ==
    [][(impl = "generic" /\ pc = "run_wait" /\ pc' = "idle" /\ reader = "done"
            /\ wait_search(buffer) = NoMatch)
        => res'.msg = "terminated"]_vars

\* C7: after close() returns on a session with a live child, the child is
\* not alive.
C7_CloseLeavesNoChild ==
    (res.op = "close" /\ res.kind = "ok" /\ res.wrote) => child.st # "alive"

\* C8: close() never raises.
C8_CloseNeverRaises ==
    res.op = "close" => res.kind \in {"pending", "ok"}

\* C9: close() on a session that was never started, is already closed or
\* whose child is dead returns normally, writes nothing and changes nothing.
C9_CloseIdempotent ==
    [][(pc = "idle" /\ calls' = calls + 1 /\ res'.op = "close"
            /\ (child.st # "alive" \/ res.op = "close"))
        => /\ res'.kind = "ok" /\ ~res'.wrote /\ sent' = sent
           /\ child' = child /\ pc' = "idle"]_vars

\* the matches of every pattern in the buffer, as <<start, index>> pairs
C10_Matches(buf, multiline) ==
    {<<i, k>> \in (1..Len(buf)) \X (1..NumPatterns) : MatchEnd(k, buf, i, multiline) > 0}

\* C10 (as the specification words it): both classes split the buffer at the
\* match that starts earliest, the lowest pattern index winning a tie.
C10_EarliestStartWins ==
    mSel.done =>
        \A sel \in {<<mSel.p, FALSE>>, <<mSel.g, TRUE>>} :
            LET M == C10_Matches(mBuf, sel[2])
            IN  IF M = {} THEN sel[1] = NoMatch
                ELSE /\ <<sel[1].start, sel[1].index>> \in M
                     /\ \A x \in M : \/ sel[1].start < x[1]
                                     \/ sel[1].start = x[1] /\ sel[1].index <= x[2]

\* C10 (as the code behaves): InteractiveShell splits at the match that
\* starts earliest, the lowest pattern index winning a tie;
\* GenericInteractiveShell splits at the leftmost match of the first pattern
\* of the list that matches anywhere in the buffer.
C10_Selection ==
    mSel.done =>
        LET P == C10_Matches(mBuf, FALSE)
            G == C10_Matches(mBuf, TRUE)
        IN  /\ IF P = {} THEN mSel.p = NoMatch
               ELSE /\ <<mSel.p.start, mSel.p.index>> \in P
                    /\ mSel.p.end = MatchEnd(mSel.p.index, mBuf, mSel.p.start, FALSE)
                    /\ \A x \in P : \/ mSel.p.start < x[1]
                                    \/ mSel.p.start = x[1] /\ mSel.p.index <= x[2]
            /\ IF G = {} THEN mSel.g = NoMatch
               ELSE /\ <<mSel.g.start, mSel.g.index>> \in G
                    /\ \A x \in G : \/ mSel.g.index < x[2]
                                    \/ mSel.g.index = x[2] /\ mSel.g.start <= x[1]

\* two patterns match at the position where InteractiveShell splits, and
\* another match starts later
C10_Witness ==
    /\ mSel.done
    /\ Cardinality({x \in C10_Matches(mBuf, FALSE) : x[1] = mSel.p.start}) > 1
    /\ \E x \in C10_Matches(mBuf, FALSE) : x[1] > mSel.p.start

\* the text the command of the run_command in progress prints: what the
\* live child wrote or has still to write for this line, less the echo of
\* the line in front of it and the prompt behind it
C11_IsOwn(x) == Tag(x) = 1

C11_Printed ==
    LET own == SelectSeq(buffer \o pipe \o todo, C11_IsOwn)
    IN  SubSeq(own, Len(cmd) + 2, Len(own) - Len(child.prompt))

C11_Printing(s) == {i \in DOMAIN s : Tag(s[i]) = 1 /\ Cls(s[i]) = "a"}

\* C11: when the child echoes the sent command and a line terminator ahead of
\* the command's output, the returned output does not hold the echo: it has
\* no more printing characters of this command than the command printed, and
\* it is empty when the command printed nothing.
C11_EchoStripped ==
    [][(pc = "run_wait" /\ pc' = "idle" /\ res'.kind = "ok" /\ child.st = "alive"
            /\ \A i \in DOMAIN buffer : Tag(buffer[i]) = 1)
        => /\ Cardinality(C11_Printing(res'.out)) <= Cardinality(C11_Printing(C11_Printed))
           /\ C11_Printed = <<>> => res'.out = <<>>]_vars

\* C12: run_command(c) writes one line: c and a newline when c does not end
\* in a newline, c as it is when c ends in a newline.
C12_OneLineWritten ==
    lSent.done =>
        LET line == IF lCmd # <<>> /\ lCmd[Len(lCmd)] = "n" THEN lCmd
                    ELSE lCmd \o <<"n">>
        IN  lSent.p = line /\ lSent.g = line

\* the position where the match that ends a wait starts: the earliest start
\* of any pattern (InteractiveShell), the leftmost start of the first pattern
\* of the list that matches (GenericInteractiveShell)
C13_Start(buf) ==
    IF impl = "pexpect"
    THEN LET S == {i \in 1..Len(buf) :
                     \E k \in 1..NumPatterns : MatchEnd(k, buf, i, FALSE) > 0}
         IN  CHOOSE x \in S : \A y \in S : x <= y
    ELSE LET K == {k \in 1..NumPatterns :
                     \E i \in 1..Len(buf) : MatchEnd(k, buf, i, TRUE) > 0}
             k0 == CHOOSE x \in K : \A y \in K : x <= y
             S == {i \in 1..Len(buf) : MatchEnd(k0, buf, i, TRUE) > 0}
         IN  CHOOSE x \in S : \A y \in S : x <= y

\* C13: the output of a run_command that ended on a prompt match is text of
\* the buffer that lies ahead of the start of the match, reaching to the
\* match but for white space: it holds no character of the matched prompt.
C13_OutputAheadOfMatch ==
    [][(pc = "run_wait" /\ pc' = "idle" /\ res'.how = "match")
        => LET s == C13_Start(buffer)
           IN  \E i \in 1..s : \E j \in (i - 1)..(s - 1) :
                  /\ res'.out = SubSeq(buffer, i, j)
                  /\ \A x \in (j + 1)..(s - 1) : IsSpace(buffer[x])]_vars

\* a run_command ended on a prompt match and returned some text
C13_Witness ==
    res.op = "run" /\ res.how = "match" /\ res.kind = "ok" /\ res.out # <<>>

\* C14: when no prompt pattern matches within the start-up timeout, start()
\* fails and the session is not Running: the next run_command is rejected
\* with RuntimeError.
C14_StartTimeoutNotRunning ==
    [][/\ (pc = "start_wait" /\ pc' = "idle" /\ res'.how = "timeout")
            => res'.kind = "TimeoutError"
       /\ (pc = "idle" /\ res.op = "start" /\ res.how = "timeout"
              /\ calls' = calls + 1 /\ res'.op = "run")
            => (res'.kind = "RuntimeError" /\ res'.how = "guard" /\ ~res'.wrote)]_vars

\* C15: InteractiveShell.start() on an executable that cannot be launched,
\* or whose process is not alive right after the spawn, raises RuntimeError
\* "Could not start shell process" and gives the session no live child: a
\* session that was not Running is not Running afterwards, and the next
\* run_command on it is rejected.
C15_SpawnFailureNotRunning ==
    [][/\ (impl = "pexpect" /\ pc = "idle" /\ calls' = calls + 1
              /\ res'.op = "start" /\ res'.how = "spawn")
            => /\ res'.kind = "RuntimeError" /\ res'.msg = "could_not_start"
               /\ pc' = "idle"
               /\ child'.st = "alive" => child' = child
       /\ (impl = "pexpect" /\ pc = "idle" /\ res.op = "start" /\ res.how = "spawn"
              /\ child.st # "alive" /\ calls' = calls + 1 /\ res'.op = "run")
            => (res'.kind = "RuntimeError" /\ res'.how = "guard" /\ ~res'.wrote)]_vars

\* run_command was rejected right after a start() whose process was not
\* alive after the spawn
C15_Witness ==
    /\ impl = "pexpect" /\ res.op = "run" /\ res.how = "guard"
    /\ child.st = "dead" /\ calls = 2 /\ sent = <<>>

C16_IsPrefix(s, t) == Len(s) <= Len(t) /\ SubSeq(t, 1, Len(s)) = s

\* C16: between the moment run_command has sent its command and the moment
\* it returns, the buffer only grows by appends: the buffer is a prefix of
\* what it is a step later, and nothing the child wrote is dropped.
C16_BufferOnlyGrows ==
    [][(pc = "run_wait" /\ pc' = "run_wait")
        => /\ C16_IsPrefix(buffer, buffer')
           /\ C16_IsPrefix(buffer \o pipe, buffer' \o pipe')]_vars

\* run_command is waiting, has read part of the child's output and more of
\* it is on its way
C16_Witness ==
    pc = "run_wait" /\ Len(buffer) >= 2 /\ pipe # <<>>

\* a tool call is made, by the named tool, on a registered session
C17_Call(names) ==
    /\ tcalls' = tcalls + 1
    /\ tool'.name \in names
    /\ tool'.sid \in reg

\* C17: get_shell_buffer on a live session returns the output accumulated so
\* far and consumes nothing.
C17_PeekReturnsBuffer ==
    [][(C17_Call({"buffer"}) /\ objs[tool'.sid].st = "alive")
        => /\ tool'.text = "buffer" /\ tool'.out = objs[tool'.sid].pending
           /\ objs' = objs /\ reg' = reg]_vars

C20_DeadSessionRemoved ==
    [][(C17_Call({"run", "buffer", "output"}) /\ objs[tool'.sid].st = "dead")
        => /\ tool'.text = "no_longer_active"
           /\ objs' = objs
           /\ reg' = reg \ {tool'.sid}]_vars

\* a tool call found the child of its session dead
C20_Witness ==
    /\ tool.text = "no_longer_active" /\ tool.name = "run"
    /\ tool.sid \notin reg /\ objs[tool.sid].st = "dead" /\ objs[tool.sid].sent > 0

\* C21 (as the specification words it): whatever tool calls overlap, each of
\* them returns a text; none raises.
C21_ToolsReturnText ==
    \A t \in TaskIds : aTask[t].exc = ""

\* C22 (as the specification words it): at most one start, run_command or
\* close is in progress on a shell object at any time.
C22_OneInFlight ==
    \A i \in SessionIds : Cardinality(aObjs[i].inside) <= 1

\* C23: a run_shell_command whose run_command raised (its timeout elapsed
\* before a prompt) returns the "Error executing command" text and leaves
\* the session registered; a close_shell_session of that id then closes it.
C23_ErrorKeepsSession ==
    [][/\ (C17_Call({"run"}) /\ tool'.text = "error_executing")
            => (reg' = reg /\ tool'.sid \in reg')
       /\ (/\ tool.name = "run" /\ tool.text = "error_executing"
           /\ C17_Call({"close"}) /\ tool'.sid = tool.sid)
            => (tool'.text \in {"closed", "closed_with_errors"}
                /\ tool'.sid \notin reg')]_vars

\* a run_shell_command has returned the error text for a live session
C23_Witness ==
    /\ tool.name = "run" /\ tool.text = "error_executing"
    /\ tool.sid \in reg /\ objs[tool.sid].st = "alive" /\ objs[tool.sid].sent > 0

\* a start_shell_session resumes from its await and returns
C24_StartReturns(t) ==
    /\ aTask[t].op = "start" /\ aTask[t].pc = "exec"
    /\ aTask'[t].pc = "idle"

\* C24: start_shell_session registers exactly one new id, and only when
\* start() has returned normally; when start() raised it returns the "Failed
\* to start shell session" text and the registry is as it was; nothing else
\* adds to the registry, so every registered session has completed start().
C24_RegisteredAfterStart ==
    [][/\ \A t \in TaskIds : C24_StartReturns(t) =>
             LET i == aTask[t].sid IN
             IF aTask'[t].text = "started"
             THEN i \notin aReg /\ aReg' = aReg \cup {i} /\ aObjs'[i].started
             ELSE aTask'[t].text = "failed_to_start" /\ aReg' = aReg
       /\ (aReg' \ aReg # {}) =>
             \E t \in TaskIds : C24_StartReturns(t) /\ aTask'[t].text = "started"
       /\ \A i \in aReg' : aObjs'[i].started]_vars

\* a start has failed and left its child running, unregistered, while
\* another session is registered
C24_Witness ==
    \E t \in TaskIds :
        /\ aTask[t].op = "start" /\ aTask[t].text = "failed_to_start"
        /\ aTask[t].sid \notin aReg /\ aObjs[aTask[t].sid].st = "alive"
        /\ aReg # {}

\* C25: close_shell_session on a registered id removes it from the registry
\* whether close() returned or raised, and says so; on an id that is not
\* registered it returns the "not found" text and changes nothing.
C25_CloseUnregisters ==
    [][(tcalls' = tcalls + 1 /\ tool'.name = "close") =>
          IF tool'.sid \in reg
          THEN /\ reg' = reg \ {tool'.sid}
               /\ tool'.text \in {"closed", "closed_with_errors"}
          ELSE /\ tool'.text = "not_found"
               /\ reg' = reg /\ objs' = objs]_vars

\* a close whose close() raised has removed its session and left another
C25_Witness ==
    /\ tool.name = "close" /\ tool.text = "closed_with_errors"
    /\ tool.sid \notin reg /\ reg # {}

\* C26: once close_all_sessions has returned, no session that was registered
\* when it was called is registered, and the number it reports closed is the
\* number of those sessions whose close_shell_session reported success.
C26_CloseAllClosesAll ==
    \A t \in TaskIds :
        (aTask[t].op = "close_all" /\ aTask[t].pc = "idle") =>
            /\ aTask[t].snap \cap aReg = {}
            /\ aTask[t].closed =
                  Cardinality({k \in DOMAIN aTask[t].log : aTask[t].log[k] = "closed"})

\* a close_all_sessions of two sessions has returned: one close reported
\* success, the other did not
C26_Witness ==
    \E t \in TaskIds :
        /\ aTask[t].op = "close_all" /\ aTask[t].pc = "idle"
        /\ Cardinality(aTask[t].snap) = 2 /\ aTask[t].closed = 1
        /\ \E k \in DOMAIN aTask[t].log : aTask[t].log[k] = "closed_with_errors"

\* C27: sessions are isolated. A run_shell_command, close_shell_session,
\* get_shell_buffer or get_command_output on one session, and the death of
\* its child, change neither the shell object (child, output, history) nor
\* the registration of any other session.
C27_SessionsIsolated ==
    [][/\ (tcalls' = tcalls + 1 /\ tool'.name \in {"run", "close", "buffer", "output"})
            => \A j \in SessionIds \ {tool'.sid} :
                  objs'[j] = objs[j] /\ (j \in reg' <=> j \in reg)
       /\ (tcalls' = tcalls /\ \E i \in SessionIds : objs'[i].st # objs[i].st)
            => /\ reg' = reg
               /\ Cardinality({j \in SessionIds : objs'[j] # objs[j]}) = 1]_vars

\* one session has been closed while another, with a command in its
\* history, is alive and registered
C27_Witness ==
    /\ tool.name = "close" /\ tool.text = "closed" /\ objs[tool.sid].st = "dead"
    /\ \E j \in reg : objs[j].st = "alive" /\ objs[j].history # <<>>

\* C28 (as the specification words it): the text a run_tcl call returns
\* holds lines of its own command only, none that tclsh wrote for the
\* command of an earlier or an overlapping call.
C28_OwnOutputOnly ==
    \A t \in TaskIds : \A k \in DOMAIN tTask[t].out : tTask[t].out[k].of = tTask[t].id

\* C29: run_tcl never raises; when tclsh cannot be spawned, or the command
\* cannot be written because tclsh has exited, it returns the "Error
\* executing Tcl command" text.
C29_TclNeverRaises ==
    \A t \in TaskIds :
        /\ tTask[t].exc = ""
        /\ tTask[t].fail # "" => tTask[t].text = "error_executing_tcl"

\* a call found tclsh exited, after an earlier call had its output
C29_Witness ==
    \E t, u \in TaskIds :
        /\ tTask[t].fail = "write" /\ tTask[t].pc = "idle" /\ tProc = "dead"
        /\ tTask[u].text = "output" /\ tTask[u].out # <<>>

\* C30 (as the specification words it): every start(), run_command() and
\* close() ends, by a return or an exception, whatever the child does: a
\* call in progress leads to the session being idle again.
C30_CallsTerminate ==
    (wPc # "idle") ~> (wPc = "idle")


\* C31: once close() of the generic class has returned, nothing is appended
\* to the output buffer any more (until the next call): every reader task
\* of the session has finished.
C31_NoAppendAfterClose ==
    [][(impl = "generic" /\ rRes = [op |-> "close", kind |-> "ok"]) => rBuf' <= rBuf]_vars

\* C34: a session never has a live child that it spawned and no longer
\* refers to, so it has at most one live child at any moment; start() on a
\* session whose child runs does not leave that child running.
C34_OneLiveChild == rOrphans = 0


\* C32: the prompt wait of the generic class ends with a timeout only when
\* no prompt pattern matches the buffer at that moment: a prompt that is in
\* the buffer when the wait gives up is reported as a match.
C32_TimeoutOnlyWithoutPrompt ==
    [][(impl = "generic" /\ pc \in {"start_wait", "run_wait"}
          /\ pc' = "idle" /\ res'.how = "timeout")
       => wait_search(buffer) = NoMatch]_vars


\* C33: when the child is gone by the time run_command of the generic class
\* writes the command line, the call fails with RuntimeError (the shell
\* exited), never with the error of the pipe itself.
C33_TypedPipeError ==
    [][(impl = "generic" /\ wPc = "run_write" /\ wPc' = "idle")
       => wRes' = "RuntimeError"]_vars


\* C35: a start_shell_session that fails leaves no child behind: the child
\* of the shell it made is not running when the call returns its failure,
\* so no live child belongs to an unregistered session.
C35_FailedStartNoOrphan ==
    [][(tcalls' = tcalls + 1 /\ tool'.name = "start" /\ tool'.text = "failed_to_start")
       => (tool'.sid \notin reg' /\ objs'[tool'.sid].st # "alive")]_vars


\* C36: get_active_sessions changes neither the registry nor a shell; it
\* lists exactly the registered sessions, each as alive exactly when its
\* child is alive; and a registered session whose child has died stays
\* registered, and dead, until a run_shell_command, get_shell_buffer,
\* get_command_output or close_shell_session call for it removes it.
C36_ListingReadOnly ==
    [][/\ (tcalls' = tcalls + 1 /\ tool'.name = "list")
            => /\ reg' = reg /\ objs' = objs
               /\ (reg = {}) = (tool'.text = "no_active_sessions")
               /\ \A i \in reg :
                     /\ tool'.out[i] \in {"alive", "dead"}
                     /\ (tool'.out[i] = "alive") = (objs[i].st = "alive")
               /\ \A i \in SessionIds \ reg : reg # {} => tool'.out[i] = "absent"
       /\ \A i \in reg :
             objs[i].st = "dead"
                => IF i \in reg'
                   THEN objs'[i].st = "dead"
                   ELSE /\ tcalls' = tcalls + 1 /\ tool'.sid = i
                        /\ tool'.name \in {"run", "buffer", "output", "close"}]_vars

\* two sessions are registered, the child of one has died, and the listing
\* shows one alive and one dead
C36_Witness ==
    /\ tool.name = "list" /\ tool.text = "sessions"
    /\ \E i, j \in reg : tool.out[i] = "alive" /\ tool.out[j] = "dead"


\* C37: run_tcl loses no output: while a call is in its read loop, every
\* line that is taken from the stdout of tclsh is added to the output of a
\* call; none is read by a readline that had timed out and then dropped.
C37_NoLineLost ==
    [][((\E t \in TaskIds : tTask[t].pc = "read") /\ tPipe # <<>> /\ tPipe' = Tail(tPipe))
       => \E t \in TaskIds : tTask'[t].out = Append(tTask[t].out, Head(tPipe))]_vars

\* C38: run_tcl stops reading as soon as it has read the prompt line of
\* tclsh: the step that adds the prompt line to a call's output ends the
\* call.
C38_StopsAtPrompt ==
    [][\A t \in TaskIds :
          (/\ tTask[t].pc = "read" /\ tPipe # <<>>
           /\ Head(tPipe) = PromptLine(Head(tPipe).of)
           /\ tTask'[t].out = Append(tTask[t].out, Head(tPipe)))
          => tTask'[t].pc = "idle"]_vars

\* the lines tclsh has still to write and those it has written that nothing
\* has read yet, oldest first
C39_Lines == tPipe \o tTodo

====
